---- MODULE Spec2Model ----
(***************************************************************************)
(* A model of the agent service of langgraph-deployment-kit                *)
(* (src/src/service/service.py): input handling (_handle_input), the       *)
(* non-streaming endpoint (invoke) and the streaming reducer               *)
(* (message_generator).  The execution engine (the Pregel graph) is the    *)
(* environment: its state snapshot, its response to ainvoke and the events *)
(* of its astream are chosen nondeterministically from bounded sets.       *)
(*                                                                         *)
(* Python strings are sequences of characters, None is the value None.     *)
(***************************************************************************)
EXTENDS Integers, Sequences, FiniteSets, TLC

None == "None"

\* ------------------------------------------------------------------ bounds

\* Engine events one stream request may consume.
MaxEvents == 3

\* Longest message list of a node delta in the wide event set.
MaxListLen == 3

\* ------------------------------------------------------------ text values

\* The characters texts are made of.
A == <<"a">>
B == <<"b">>
AB == <<"a", "b">>
Q == <<"q">>
Empty == <<>>

RECURSIVE Flatten(_)
\* "".join(texts)
Flatten(ss) == IF ss = <<>> THEN <<>> ELSE Head(ss) \o Flatten(Tail(ss))

\* Message content as the chat-model client delivers it in chunks: a str, or
\* a list of parts, each a text part or a tool_use part.
StrContent(t) == [kind |-> "str", text |-> t, parts |-> <<>>]
ListContent(ps) == [kind |-> "list", text |-> <<>>, parts |-> ps]
TextPart(t) == [type |-> "text", text |-> t]
ToolUsePart == [type |-> "tool_use", text |-> <<>>]

\* Python truthiness of a content value (`if content:`).
Truthy(c) == IF c.kind = "str" THEN c.text # <<>> ELSE c.parts # <<>>

remove_tool_calls_keep(content) == content

\* service.utils.remove_tool_calls: tool-call parts are removed from a part
\* list; a str is returned as it is.
remove_tool_calls(content) ==
    IF content.kind = "str" THEN content
    ELSE ListContent(SelectSeq(content.parts, LAMBDA p : p.type # "tool_use"))

\* service.utils.convert_message_content_to_string: the text of a content.
convert_message_content_to_string(content) ==
    IF content.kind = "str" THEN content.text
    ELSE Flatten([i \in 1..Len(content.parts) |->
                    IF content.parts[i].type = "text"
                    THEN content.parts[i].text ELSE <<>>])

\* ------------------------------------------------------- engine messages

\* A complete message object of the engine (cls is its Python class), a
\* (field_name, field_value) tuple fragment, or an arbitrary object.
Msg(cls, content) == [cls |-> cls, content |-> content, name |-> "", key |-> ""]
HumanMessage(c) == Msg("HumanMessage", c)
AIMessage(c) == Msg("AIMessage", c)
ToolMessage(c, name) == [cls |-> "ToolMessage", content |-> c, name |-> name, key |-> ""]
Fragment(k, v) == [cls |-> "tuple", content |-> v, name |-> "", key |-> k]
Opaque == Msg("object", <<>>)

\* isinstance(msg, tuple)
IsTuple(m) == m.cls = "tuple"

\* isinstance(msg, AIMessage): AIMessageChunk is a subclass of AIMessage.
IsAIMessage(m) == m.cls \in {"AIMessage", "AIMessageChunk"}

\* ----------------------------------------------------------- node deltas

\* The state delta of one node in an "updates" event: None, a dict (with or
\* without a "messages" list, with or without other keys), or, for the
\* interrupt marker, the list of pending interrupts (their values).
\* serializable says whether _simplify_node_updates and json.dumps succeed.
NoneDelta == [kind |-> "none", has_messages |-> FALSE, messages |-> <<>>,
              extra |-> FALSE, serializable |-> TRUE, interrupts |-> <<>>]
DictDelta(msgs) == [kind |-> "dict", has_messages |-> TRUE, messages |-> msgs,
                    extra |-> FALSE, serializable |-> TRUE, interrupts |-> <<>>]
NoMessagesDelta(extra) == [kind |-> "dict", has_messages |-> FALSE, messages |-> <<>>,
                           extra |-> extra, serializable |-> TRUE, interrupts |-> <<>>]
InterruptDelta(values) == [kind |-> "interrupts", has_messages |-> FALSE, messages |-> <<>>,
                           extra |-> FALSE, serializable |-> TRUE, interrupts |-> values]
Unserializable(delta) == [delta EXCEPT !.serializable = FALSE, !.extra = TRUE]

\* `updates is not None and len(updates) > 0`
has_updates(delta) ==
    CASE delta.kind = "none" -> FALSE
      [] delta.kind = "dict" -> delta.has_messages \/ delta.extra
      [] OTHER -> delta.interrupts # <<>>

\* `updates = updates or {}; update_messages = updates.get("messages", [])`
update_messages(delta) ==
    IF delta.kind = "dict" /\ delta.has_messages THEN delta.messages ELSE <<>>

InterruptNode == "__interrupt__"
SupervisorNode == "supervisor"
SubAgentNodes == {"research_expert", "math_expert"}

\* The result of a step that may raise: the messages (or frames) it produced
\* and whether an exception left it.
Ok(ms) == [msgs |-> ms, raised |-> FALSE]
Raise(ms) == [msgs |-> ms, raised |-> TRUE]

SupervisorCollapse_first(um) ==
    LET ai == SelectSeq(um, IsAIMessage)
    IN  IF ai # <<>> THEN <<ai[1]>> ELSE um

SupervisorCollapse_all(um) ==
    LET ai == SelectSeq(um, IsAIMessage)
    IN  IF ai # <<>> THEN ai ELSE um

\* The supervisor special case: only the last AIMessage of the list is kept
\* when the list holds one.
SupervisorCollapse(um) ==
    LET ai == SelectSeq(um, IsAIMessage)
    IN  IF ai # <<>> THEN <<ai[Len(ai)]>> ELSE um

\* The sub-agent special case: `update_messages[0].content` raises IndexError
\* on an empty list and AttributeError on a tuple.
SubAgentToTool(node, um) ==
    IF um = <<>> \/ IsTuple(um[1]) THEN Raise(<<>>)
    ELSE Ok(<<ToolMessage(um[1].content, node)>>)

RECURSIVE InterruptMessages(_)
\* One AIMessage per pending interrupt, in order.
InterruptMessages(values) ==
    IF values = <<>> THEN <<>>
    ELSE <<AIMessage(Head(values))>> \o InterruptMessages(Tail(values))

NodeMessages_interrupt_as_node(node, delta) ==
    LET um == update_messages(delta)
        um2 == IF node = SupervisorNode THEN SupervisorCollapse(um) ELSE um
    IN  IF node \in SubAgentNodes THEN SubAgentToTool(node, um2) ELSE Ok(um2)

\* The candidate messages of one (node, updates) pair.
NodeMessages(node, delta) ==
    IF node = InterruptNode THEN Ok(InterruptMessages(delta.interrupts))
    ELSE LET um == update_messages(delta)
             um2 == IF node = SupervisorNode THEN SupervisorCollapse(um) ELSE um
         IN  IF node \in SubAgentNodes THEN SubAgentToTool(node, um2) ELSE Ok(um2)

RECURSIVE ReduceUpdates(_, _)
\* The second loop over event.items(): new_messages, or the exception that
\* ended the loop.
ReduceUpdates(items, new_messages) ==
    IF items = <<>> THEN Ok(new_messages)
    ELSE LET r == NodeMessages(Head(items).node, Head(items).delta)
         IN  IF r.raised THEN Raise(new_messages)
             ELSE ReduceUpdates(Tail(items), new_messages \o r.msgs)

\* ------------------------------------------------ partial-message assembly

\* Keys _create_ai_message keeps (the parameters of AIMessage); of these the
\* model gives a value to "content".
ValidKeys == {"content", "tool_calls", "additional_kwargs"}

EmptyDict == [k \in {} |-> <<>>]

\* current_message[key] = value
DictSet(d, key, value) ==
    [k \in (DOMAIN d) \cup {key} |-> IF k = key THEN value ELSE d[k]]

\* AIMessage(**filtered) raises when no content is given.
CreateRaises(parts) == "content" \notin ((DOMAIN parts) \cap ValidKeys)

_create_ai_message(parts) == AIMessage(parts["content"])

RECURSIVE Assemble(_, _, _)
\* The loop over new_messages and the flush after it: processed_messages, or
\* the exception of _create_ai_message.
Assemble(new_messages, processed, current) ==
    IF new_messages = <<>> THEN
        IF DOMAIN current = {} THEN Ok(processed)
        ELSE IF CreateRaises(current) THEN Raise(processed)
        ELSE Ok(Append(processed, _create_ai_message(current)))
    ELSE LET message == Head(new_messages)
         IN  IF IsTuple(message)
             THEN Assemble(Tail(new_messages), processed,
                           DictSet(current, message.key, message.content))
             ELSE IF DOMAIN current # {}
                  THEN IF CreateRaises(current) THEN Raise(processed)
                       ELSE Assemble(Tail(new_messages),
                                     Append(Append(processed, _create_ai_message(current)),
                                            message),
                                     EmptyDict)
                  ELSE Assemble(Tail(new_messages), Append(processed, message), current)

\* ------------------------------------------------------------------ frames

\* One `data: ...` line of the event stream.  type is the frame's "type"
\* ("DONE" for the sentinel); the other fields are its content.
Frame(type) == [type |-> type, role |-> "", content |-> <<>>, name |-> "",
                run_id |-> None, node |-> "", has_updates |-> FALSE,
                fallback |-> FALSE, detail |-> ""]
MessageFrame(cm) == [Frame("message") EXCEPT !.role = cm.type, !.content = cm.content,
                                             !.name = cm.name, !.run_id = cm.run_id]
TokenFrame(text) == [Frame("token") EXCEPT !.content = text]
ErrorFrame(detail) == [Frame("error") EXCEPT !.detail = detail]
DoneFrame == Frame("DONE")

NodeUpdateFrame_fallback_without_run_id(node, delta, run_id) ==
    [Frame("node_update") EXCEPT !.node = node, !.has_updates = has_updates(delta),
                                 !.fallback = ~delta.serializable,
                                 !.run_id = IF delta.serializable THEN run_id ELSE None]

\* The node_update frame of one (node, updates) pair: the simplified update,
\* or the fallback with the error marker.
NodeUpdateFrame(node, delta, run_id) ==
    [Frame("node_update") EXCEPT !.node = node, !.has_updates = has_updates(delta),
                                 !.fallback = ~delta.serializable, !.run_id = run_id]


\* schema.ChatMessage
ChatMessage(type, content, name) ==
    [type |-> type, content |-> content, name |-> name, run_id |-> None]

\* service.utils.langchain_to_chat_message raises for an object that is no
\* message of a known role.
ConversionRaises(message) ==
    message.cls \notin {"HumanMessage", "AIMessage", "AIMessageChunk", "ToolMessage"}

\* service.utils.langchain_to_chat_message: the ChatMessage of a message, its
\* role read from the message's class.
langchain_to_chat_message(message) ==
    ChatMessage(CASE message.cls = "HumanMessage" -> "human"
                  [] message.cls = "ToolMessage" -> "tool"
                  [] OTHER -> "ai",
                message.content, message.name)

IsInputEcho_never(chat_message, user_message) == FALSE

\* `chat_message.type == "human" and chat_message.content == user_input.message`
IsInputEcho(chat_message, user_message) ==
    chat_message.type = "human" /\ chat_message.content = user_message

RECURSIVE MessageFrames_stops_at_failure(_, _, _)
MessageFrames_stops_at_failure(processed, user_message, run_id) ==
    IF processed = <<>> THEN <<>>
    ELSE LET message == Head(processed)
             rest == MessageFrames_stops_at_failure(Tail(processed), user_message, run_id)
             chat_message == [langchain_to_chat_message(message) EXCEPT !.run_id = run_id]
         IN  IF ConversionRaises(message) THEN <<ErrorFrame("Unexpected error")>>
             ELSE IF IsInputEcho(chat_message, user_message) THEN rest
             ELSE <<MessageFrame(chat_message)>> \o rest

RECURSIVE MessageFrames(_, _, _)
\* The loop over processed_messages: an error frame for a message that cannot
\* be converted, nothing for the echo of the input, a message frame otherwise.
MessageFrames(processed, user_message, run_id) ==
    IF processed = <<>> THEN <<>>
    ELSE LET message == Head(processed)
             rest == MessageFrames(Tail(processed), user_message, run_id)
             chat_message == [langchain_to_chat_message(message) EXCEPT !.run_id = run_id]
         IN  IF ConversionRaises(message) THEN <<ErrorFrame("Unexpected error")>> \o rest
             ELSE IF IsInputEcho(chat_message, user_message) THEN rest
             ELSE <<MessageFrame(chat_message)>> \o rest

NodeUpdateFrames_nonempty_only(items, run_id) ==
    LET changed == SelectSeq(items, LAMBDA it : has_updates(it.delta))
    IN  [i \in 1..Len(changed) |-> NodeUpdateFrame(changed[i].node, changed[i].delta, run_id)]

\* The first loop over event.items(): one node_update frame per pair, the
\* fallback frame when the update cannot be serialized.
NodeUpdateFrames(items, run_id) ==
    [i \in 1..Len(items) |-> NodeUpdateFrame(items[i].node, items[i].delta, run_id)]

\* A token-delta event's (msg, metadata): the class of msg, its content and
\* whether metadata's tags hold "skip_stream".
Chunk(cls, content, skip) == [cls |-> cls, content |-> content, skip |-> skip]
NoChunk == Chunk("", StrContent(<<>>), FALSE)

TokenFrames_always(chunk, stream_tokens) ==
    IF chunk.skip \/ chunk.cls # "AIMessageChunk" THEN <<>>
    ELSE LET content == remove_tool_calls(chunk.content)
         IN  IF Truthy(content)
             THEN <<TokenFrame(convert_message_content_to_string(content))>>
             ELSE <<>>

TokenFrames_ignores_skip(chunk, stream_tokens) ==
    IF ~stream_tokens \/ chunk.cls # "AIMessageChunk" THEN <<>>
    ELSE LET content == remove_tool_calls(chunk.content)
         IN  IF Truthy(content)
             THEN <<TokenFrame(convert_message_content_to_string(content))>>
             ELSE <<>>

TokenFrames_any_class(chunk, stream_tokens) ==
    IF ~stream_tokens \/ chunk.skip THEN <<>>
    ELSE LET content == remove_tool_calls(chunk.content)
         IN  IF Truthy(content)
             THEN <<TokenFrame(convert_message_content_to_string(content))>>
             ELSE <<>>

\* The token branch (stream_mode == "messages").
TokenFrames(chunk, stream_tokens) ==
    IF ~stream_tokens THEN <<>>
    ELSE IF chunk.skip THEN <<>>
    ELSE IF chunk.cls # "AIMessageChunk" THEN <<>>
    ELSE LET content == remove_tool_calls(chunk.content)
         IN  IF Truthy(content)
             THEN <<TokenFrame(convert_message_content_to_string(content))>>
             ELSE <<>>

\* ----------------------------------------------------------- engine events

\* One item of agent.astream: a (stream_mode, event) tuple, or something that
\* is no tuple.
Event(mode) == [mode |-> mode, items |-> <<>>, payload |-> Opaque, chunk |-> NoChunk]
UpdatesEvent(items) == [Event("updates") EXCEPT !.items = items]
CustomEvent(payload) == [Event("custom") EXCEPT !.payload = payload]
MessagesEvent(chunk) == [Event("messages") EXCEPT !.chunk = chunk]
NonTupleEvent == Event("nontuple")
Item(node, delta) == [node |-> node, delta |-> delta]

\* The body of the `async for` loop for one event: the frames it yields, in
\* order, and whether an exception leaves the loop after them.
ProcessEvent(e, user_input, run_id) ==
    CASE e.mode = "nontuple" -> Ok(<<>>)
      [] e.mode = "updates" ->
            LET nu == IF user_input.stream_node_updates # FALSE
                      THEN NodeUpdateFrames(e.items, run_id) ELSE <<>>
                nm == ReduceUpdates(e.items, <<>>)
                pm == Assemble(nm.msgs, <<>>, EmptyDict)
            IN  IF nm.raised \/ pm.raised THEN Raise(nu)
                ELSE Ok(nu \o MessageFrames(pm.msgs, user_input.message, run_id))
      [] e.mode = "custom" ->
            LET pm == Assemble(<<e.payload>>, <<>>, EmptyDict)
            IN  IF pm.raised THEN Raise(<<>>)
                ELSE Ok(MessageFrames(pm.msgs, user_input.message, run_id))
      [] e.mode = "messages" -> Ok(TokenFrames(e.chunk, user_input.stream_tokens))
      [] OTHER -> Ok(<<>>)

\* ----------------------------------------------------------------- inputs

DEFAULT_AGENT == "research-assistant"

\* The keys of agents.agents
Agents == {"research-assistant"}

\* schema.UserInput / schema.StreamInput, with the endpoint and the agent_id
\* of the path.  agent_config is a dict (a function from its keys); the empty
\* dict stands for an absent agent_config.
UserInput(endpoint, agent_id, thread_id, model, user_id, agent_config, stream_tokens, stream_node_updates) ==
    [endpoint |-> endpoint, agent_id |-> agent_id, message |-> Q,
     thread_id |-> thread_id, model |-> model, user_id |-> user_id,
     agent_config |-> agent_config, stream_tokens |-> stream_tokens,
     stream_node_updates |-> stream_node_updates]

\* A dict with one key.
Dict1(k, v) == [x \in {k} |-> v]

\* dict.update
DictUpdate(d, other) ==
    [k \in (DOMAIN d) \cup (DOMAIN other) |-> IF k \in DOMAIN other THEN other[k] ELSE d[k]]

\* Python truthiness of an optional string.
Given(v) == v # None /\ v # ""

\* uuid4(): the n-th identifier drawn, unlike every other.
Uuid(n) == "uuid-" \o ToString(n)

ReservedOverlap_none(configurable, agent_config) == {}

\* `configurable.keys() & user_input.agent_config.keys()`
ReservedOverlap(configurable, agent_config) ==
    (DOMAIN configurable) \cap (DOMAIN agent_config)

BaseConfigurable_without_user_id(user_input, thread_id) ==
    LET c1 == Dict1("thread_id", thread_id)
    IN  IF Given(user_input.model)
        THEN DictUpdate(c1, Dict1("model", user_input.model)) ELSE c1

\* The configurable dict before agent_config is merged: thread_id, and model
\* and user_id when the request gives them.
BaseConfigurable(user_input, thread_id) ==
    LET c1 == Dict1("thread_id", thread_id)
        c2 == IF Given(user_input.model)
              THEN DictUpdate(c1, Dict1("model", user_input.model)) ELSE c1
    IN  IF Given(user_input.user_id)
        THEN DictUpdate(c2, Dict1("user_id", user_input.user_id)) ELSE c2

\* RunnableConfig(configurable=..., run_id=...)
RunnableConfig(configurable, run_id) == [configurable |-> configurable, run_id |-> run_id]

RunInput_any_task(tasks, message) ==
    IF tasks # <<>>
    THEN [kind |-> "resume", resume |-> message, messages |-> <<>>]
    ELSE [kind |-> "messages", resume |-> <<>>, messages |-> <<HumanMessage(message)>>]

\* The input of the run: Command(resume=message) when a task of the state
\* has interrupts, a fresh human message otherwise.  tasks gives the number
\* of interrupts of each task of the state snapshot.
RunInput(tasks, message) ==
    IF \E i \in 1..Len(tasks) : tasks[i] > 0
    THEN [kind |-> "resume", resume |-> message, messages |-> <<>>]
    ELSE [kind |-> "messages", resume |-> <<>>, messages |-> <<HumanMessage(message)>>]

NoInput == [kind |-> "none", resume |-> <<>>, messages |-> <<>>]
NoConfig == RunnableConfig(EmptyDict, None)

\* One call of the engine.
Call(op, input, config) == [op |-> op, input |-> input, config |-> config]

\* How a handler ended: a ChatMessage returned, an HTTPException raised, any
\* other exception raised, or (a stream) the generator exhausted.
NoChatMessage == ChatMessage("", <<>>, "")
NoResult == [kind |-> "none", status |-> 0, detail |-> "", message |-> NoChatMessage]
Returned(cm) == [kind |-> "message", status |-> 200, detail |-> "", message |-> cm]
HTTPException(status, detail) ==
    [kind |-> "http", status |-> status, detail |-> detail, message |-> NoChatMessage]
Exception(what) == [kind |-> "exception", status |-> 0, detail |-> what, message |-> NoChatMessage]
Exhausted == [kind |-> "exhausted", status |-> 0, detail |-> "", message |-> NoChatMessage]

\* ----------------------------------------------------- invoke: the result

\* One (type, payload) event of agent.ainvoke's result.
ValuesEvent(msgs) == [type |-> "values", messages |-> msgs, items |-> <<>>]
UpdatesResult(items) == [type |-> "updates", messages |-> <<>>, items |-> items]

\* `"__interrupt__" in response`
HasInterrupt(items) == \E i \in 1..Len(items) : items[i].node = InterruptNode

\* response["__interrupt__"]
InterruptsOf(items) ==
    items[CHOOSE i \in 1..Len(items) : items[i].node = InterruptNode].delta.interrupts

InvokeOutput_first(response_events, run_id) ==
    LET last == response_events[Len(response_events)]
    IN  IF response_events = <<>> THEN HTTPException(500, "Unexpected error")
        ELSE IF last.type = "values" /\ last.messages # <<>>
                /\ ~ConversionRaises(last.messages[1])
        THEN Returned([langchain_to_chat_message(last.messages[1]) EXCEPT !.run_id = run_id])
        ELSE HTTPException(500, "Unexpected error")

InvokeOutput_values(response_events, run_id) ==
    LET vals == SelectSeq(response_events, LAMBDA e : e.type = "values")
        last == vals[Len(vals)]
    IN  IF vals = <<>> \/ last.messages = <<>> THEN HTTPException(500, "Unexpected error")
        ELSE IF ConversionRaises(last.messages[Len(last.messages)])
        THEN HTTPException(500, "Unexpected error")
        ELSE Returned([langchain_to_chat_message(last.messages[Len(last.messages)])
                         EXCEPT !.run_id = run_id])

InvokeOutput_lenient(response_events, run_id) ==
    IF response_events = <<>> THEN HTTPException(500, "Unexpected error")
    ELSE LET last == response_events[Len(response_events)]
         IN  IF last.type = "values" THEN
                 IF last.messages = <<>> THEN HTTPException(500, "Unexpected error")
                 ELSE IF ConversionRaises(last.messages[Len(last.messages)])
                 THEN HTTPException(500, "Unexpected error")
                 ELSE Returned([langchain_to_chat_message(last.messages[Len(last.messages)])
                                  EXCEPT !.run_id = run_id])
             ELSE IF last.type = "updates" /\ HasInterrupt(last.items) THEN
                 IF InterruptsOf(last.items) = <<>> THEN HTTPException(500, "Unexpected error")
                 ELSE Returned([langchain_to_chat_message(AIMessage(InterruptsOf(last.items)[1]))
                                  EXCEPT !.run_id = run_id])
             ELSE Returned([langchain_to_chat_message(AIMessage(<<>>)) EXCEPT !.run_id = run_id])

\* The try block of invoke after ainvoke returned response_events: the
\* message of the terminal event, or the HTTPException the except clause
\* raises for any exception.
InvokeOutput(response_events, run_id) ==
    IF response_events = <<>> THEN HTTPException(500, "Unexpected error")
    ELSE LET last == response_events[Len(response_events)]
         IN  IF last.type = "values" THEN
                 IF last.messages = <<>> THEN HTTPException(500, "Unexpected error")
                 ELSE IF ConversionRaises(last.messages[Len(last.messages)])
                 THEN HTTPException(500, "Unexpected error")
                 ELSE Returned([langchain_to_chat_message(last.messages[Len(last.messages)])
                                  EXCEPT !.run_id = run_id])
             ELSE IF last.type = "updates" /\ HasInterrupt(last.items) THEN
                 IF InterruptsOf(last.items) = <<>> THEN HTTPException(500, "Unexpected error")
                 ELSE Returned([langchain_to_chat_message(AIMessage(InterruptsOf(last.items)[1]))
                                  EXCEPT !.run_id = run_id])
             ELSE HTTPException(500, "Unexpected error")

\* An answer of agent.aget_state: it raises, or gives the tasks of the
\* snapshot (the number of interrupts of each).
StateAnswer(raises, tasks) == [raises |-> raises, tasks |-> tasks]

NoSnapshot == StateAnswer(FALSE, <<>>)

\* An answer of agent.ainvoke: it raises, or gives the list of events.
Response(raises, events) == [raises |-> raises, events |-> events]
NoAnswer == Response(FALSE, <<>>)

\* -------------------------------------------- the engine's thread states

\* configurable["thread_id"] of a run configuration.
ThreadOf(config) == config.configurable["thread_id"]

\* The messages the checkpointer holds for a thread (none for a thread it has
\* never seen).
ThreadMessages(store, thread_id) ==
    IF thread_id \in DOMAIN store THEN store[thread_id] ELSE <<>>

\* State.messages under the add_messages reducer: new messages are appended.
add_messages(store, thread_id, new) ==
    [t \in (DOMAIN store) \cup {thread_id} |->
        ThreadMessages(store, t) \o (IF t = thread_id THEN new ELSE <<>>)]

\* The messages a node delta adds to the state: its "messages" list, tuple
\* fragments left out.
DeltaMessages(delta) == SelectSeq(update_messages(delta), LAMBDA m : ~IsTuple(m))

RECURSIVE ItemsMessages(_)
\* The messages the node deltas of one "updates" event add to the state.
ItemsMessages(items) ==
    IF items = <<>> THEN <<>>
    ELSE (IF Head(items).node = InterruptNode THEN <<>> ELSE DeltaMessages(Head(items).delta))
         \o ItemsMessages(Tail(items))

\* The state a run leaves behind once agent.ainvoke has answered: the input
\* messages are appended when the run starts, and a "values" event carries
\* the whole state after a step, so the last one is the state of the thread.
StateAfterInvoke(store, thread_id, input, r) ==
    LET started == add_messages(store, thread_id, input.messages)
        vals == SelectSeq(r.events, LAMBDA e : e.type = "values")
    IN  IF r.raises \/ vals = <<>> THEN started
        ELSE [started EXCEPT ![thread_id] = vals[Len(vals)].messages]

\* ------------------------------------------------------------------ state

VARIABLES
    user_input,   \* the request being served
    pc,           \* where its handler is: "start", "run" (invoke awaits ainvoke),
                  \* "loop" (the generator awaits the next event), "yield" (it
                  \* yields the frames of the current event), "except",
                  \* "finally", "ended" (the handler is gone)
    uuids,        \* how many uuid4() values have been drawn
    run_id,       \* _handle_input's run_id
    kwargs,       \* _handle_input's kwargs: the input and the config of the run
    calls,        \* the calls made to the engine, in order
    consumed,     \* the events taken from agent.astream, in order
    pending,      \* frames of the current event not yet yielded
    will_raise,   \* whether an exception follows the pending frames
    caught,       \* events consumed when the outer except clause caught an
                  \* exception (-1: it caught none)
    out,          \* the frames yielded to the transport, in order
    answer,       \* what agent.ainvoke answered
    result,       \* how the handler ended
    served,       \* the requests served before this one, in order
    store,        \* the checkpointer: the messages of each thread
    scores,       \* the scores forwarded to the telemetry API, in order
    snapshot,     \* what agent.aget_state answered for this request
    closed,       \* whether the transport has closed the stream of this request
    peer          \* the task of a simultaneous request, suspended: its own
                  \* user_input, pc, run_id, ... (NoPeer: there is none)

vars == <<user_input, pc, uuids, run_id, kwargs, calls, consumed, pending,
          will_raise, caught, out, answer, result, served, store, scores, snapshot,
          closed, peer>>

\* What outlives a request.
session == <<served, store, scores>>

\* The local state of the task that serves the request.
Running ==
    [user_input |-> user_input, pc |-> pc, run_id |-> run_id, kwargs |-> kwargs,
     calls |-> calls, consumed |-> consumed, pending |-> pending,
     will_raise |-> will_raise, caught |-> caught, out |-> out, answer |-> answer,
     result |-> result, snapshot |-> snapshot, closed |-> closed]

\* The task of a request that has just arrived.
NewTask(request) ==
    [user_input |-> request, pc |-> "start", run_id |-> None,
     kwargs |-> [input |-> NoInput, config |-> NoConfig],
     calls |-> <<>>, consumed |-> <<>>, pending |-> <<>>, will_raise |-> FALSE,
     caught |-> -1, out |-> <<>>, answer |-> NoAnswer, result |-> NoResult,
     snapshot |-> NoSnapshot, closed |-> FALSE]

NoPeer == [pc |-> "none"]

InitTask(requests) ==
    /\ user_input \in requests
    /\ pc = "start"
    /\ uuids = 0
    /\ run_id = None
    /\ kwargs = [input |-> NoInput, config |-> NoConfig]
    /\ calls = <<>>
    /\ consumed = <<>>
    /\ pending = <<>>
    /\ will_raise = FALSE
    /\ caught = -1
    /\ out = <<>>
    /\ answer = NoAnswer
    /\ result = NoResult
    /\ served = <<>>
    /\ store = EmptyDict
    /\ scores = <<>>
    /\ snapshot = NoSnapshot
    /\ closed = FALSE

InitWith(requests) == InitTask(requests) /\ peer = NoPeer

\* get_agent and _handle_input, as invoke and message_generator run them
\* before their try blocks.  states are the answers of agent.aget_state.
HandleInput(states) ==
    /\ pc = "start"
    /\ UNCHANGED <<user_input, consumed, pending, will_raise, caught, out, answer>>
    /\ UNCHANGED <<served, scores, closed, peer>>
    /\ IF user_input.agent_id \notin Agents
       THEN \* agents[agent_id] raises KeyError
            /\ pc' = "ended"
            /\ result' = Exception("KeyError")
            /\ UNCHANGED <<uuids, run_id, kwargs, calls, store, snapshot>>
       ELSE LET rid == Uuid(uuids + 1)
                minted == ~Given(user_input.thread_id)
                thread_id == IF minted THEN Uuid(uuids + 2) ELSE user_input.thread_id
                base == BaseConfigurable(user_input, thread_id)
                config == RunnableConfig(DictUpdate(base, user_input.agent_config), rid)
            IN  /\ uuids' = uuids + (IF minted THEN 2 ELSE 1)
                /\ run_id' = rid
                /\ IF ReservedOverlap(base, user_input.agent_config) # {}
                   THEN /\ pc' = "ended"
                        /\ result' = HTTPException(422, "agent_config contains reserved keys")
                        /\ UNCHANGED <<kwargs, calls, store, snapshot>>
                   ELSE \E st \in states :
                        /\ snapshot' = st
                        /\ IF st.raises
                           THEN /\ pc' = "ended"
                                /\ result' = Exception("aget_state")
                                /\ calls' = Append(calls, Call("aget_state", NoInput, config))
                                /\ UNCHANGED <<kwargs, store>>
                           ELSE LET input == RunInput(st.tasks, user_input.message)
                                IN  /\ kwargs' = [input |-> input, config |-> config]
                                    /\ result' = result
                                    /\ IF user_input.endpoint = "invoke"
                                       THEN /\ pc' = "run"
                                            /\ calls' = Append(calls,
                                                   Call("aget_state", NoInput, config))
                                            /\ UNCHANGED store
                                       ELSE /\ pc' = "loop"
                                            /\ calls' = calls \o
                                                   <<Call("aget_state", NoInput, config),
                                                     Call("astream", input, config)>>
                                            /\ store' = add_messages(store, ThreadOf(config),
                                                                     input.messages)

\* invoke: agent.ainvoke answers and the handler returns or raises.
InvokeRun(responses) ==
    /\ pc = "run"
    /\ UNCHANGED <<snapshot, closed, peer>>
    /\ \E r \in responses :
         /\ calls' = Append(calls, Call("ainvoke", kwargs.input, kwargs.config))
         /\ answer' = r
         /\ result' = IF r.raises THEN HTTPException(500, "Unexpected error")
                      ELSE InvokeOutput(r.events, run_id)
         /\ store' = StateAfterInvoke(store, ThreadOf(kwargs.config), kwargs.input, r)
    /\ pc' = "ended"
    /\ UNCHANGED <<user_input, uuids, run_id, kwargs, consumed, pending, will_raise,
                   caught, out, served, scores>>

\* message_generator: agent.astream delivers its next event, and the loop
\* body runs up to its first yield (or, with nothing to yield, to its end).
EngineEvent(events, n) ==
    /\ pc = "loop"
    /\ UNCHANGED <<snapshot, closed, peer>>
    /\ Len(consumed) < n
    /\ \E e \in events :
         LET r == ProcessEvent(e, user_input, run_id)
         IN  /\ consumed' = Append(consumed, e)
             /\ pending' = r.msgs
             /\ will_raise' = (r.msgs # <<>> /\ r.raised)
             /\ pc' = IF r.msgs # <<>> THEN "yield"
                      ELSE IF r.raised THEN "except" ELSE "loop"
             /\ caught' = IF r.msgs = <<>> /\ r.raised THEN Len(consumed') ELSE caught
             /\ store' = IF e.mode = "updates"
                         THEN add_messages(store, ThreadOf(kwargs.config),
                                           ItemsMessages(e.items))
                         ELSE store
    /\ UNCHANGED <<user_input, uuids, run_id, kwargs, calls, out, answer, result,
                   served, scores>>

\* agent.astream raises instead of delivering an event.
EngineRaise ==
    /\ pc = "loop"
    /\ UNCHANGED <<snapshot, closed, peer>>
    /\ pc' = "except"
    /\ caught' = Len(consumed)
    /\ UNCHANGED <<user_input, uuids, run_id, kwargs, calls, consumed, pending,
                   will_raise, out, answer, result,
                   served, store, scores>>

\* agent.astream is exhausted: the loop ends.
EngineEnd ==
    /\ pc = "loop"
    /\ UNCHANGED <<snapshot, closed, peer>>
    /\ pc' = "finally"
    /\ UNCHANGED <<user_input, uuids, run_id, kwargs, calls, consumed, pending,
                   will_raise, caught, out, answer, result,
                   served, store, scores>>

Yield_next_event_early ==
    /\ pc = "yield"
    /\ UNCHANGED <<snapshot, closed, peer>>
    /\ out' = Append(out, Head(pending))
    /\ pending' = Tail(pending)
    /\ pc' = IF will_raise /\ pending' = <<>> THEN "except" ELSE "loop"
    /\ will_raise' = (will_raise /\ pending' # <<>>)
    /\ caught' = IF pending' = <<>> /\ will_raise THEN Len(consumed) ELSE caught
    /\ UNCHANGED <<user_input, uuids, run_id, kwargs, calls, consumed, answer, result,
                   served, store, scores>>

\* The transport takes the next frame of the current event.
Yield ==
    /\ pc = "yield"
    /\ UNCHANGED <<snapshot, closed, peer>>
    /\ out' = Append(out, Head(pending))
    /\ pending' = Tail(pending)
    /\ pc' = IF pending' # <<>> THEN "yield"
             ELSE IF will_raise THEN "except" ELSE "loop"
    /\ will_raise' = (will_raise /\ pending' # <<>>)
    /\ caught' = IF pending' = <<>> /\ will_raise THEN Len(consumed) ELSE caught
    /\ UNCHANGED <<user_input, uuids, run_id, kwargs, calls, consumed, answer, result,
                   served, store, scores>>

Except_no_sentinel ==
    /\ pc = "except"
    /\ UNCHANGED <<snapshot, closed, peer>>
    /\ out' = Append(out, ErrorFrame("Internal server error"))
    /\ pc' = "ended"
    /\ result' = Exhausted
    /\ UNCHANGED <<user_input, uuids, run_id, kwargs, calls, consumed, pending,
                   will_raise, caught, answer,
                   served, store, scores>>

Except_silent ==
    /\ pc = "except"
    /\ UNCHANGED <<snapshot, closed, peer>>
    /\ pc' = "finally"
    /\ UNCHANGED <<user_input, uuids, run_id, kwargs, calls, consumed, pending,
                   will_raise, caught, out, answer, result,
                   served, store, scores>>

\* `except Exception`: the error frame.
Except ==
    /\ pc = "except"
    /\ UNCHANGED <<snapshot, closed, peer>>
    /\ out' = Append(out, ErrorFrame("Internal server error"))
    /\ pc' = "finally"
    /\ UNCHANGED <<user_input, uuids, run_id, kwargs, calls, consumed, pending,
                   will_raise, caught, answer, result,
                   served, store, scores>>

\* `finally`: the sentinel, after which the generator is exhausted.
Finally ==
    /\ pc = "finally"
    /\ UNCHANGED <<snapshot, closed, peer>>
    /\ out' = Append(out, DoneFrame)
    /\ pc' = "ended"
    /\ result' = Exhausted
    /\ UNCHANGED <<user_input, uuids, run_id, kwargs, calls, consumed, pending,
                   will_raise, caught, answer,
                   served, store, scores>>

\* The client goes away while the generator is suspended, awaiting the next
\* event of agent.astream or at a yield inside the loop: the transport stops
\* iterating, and the generator is cancelled or closed where it stands
\* (CancelledError or GeneratorExit, which `except Exception` lets through),
\* so that its finally clause runs next.
Disconnect ==
    /\ pc \in {"loop", "yield"}
    /\ closed' = TRUE
    /\ pc' = "finally"
    /\ pending' = <<>>
    /\ will_raise' = FALSE
    /\ UNCHANGED <<user_input, uuids, run_id, kwargs, calls, consumed, caught, out,
                   answer, result, served, store, scores, snapshot, peer>>

Switch_shared_accumulator ==
    /\ peer.pc \notin {"none", "ended"}
    /\ peer' = Running
    /\ user_input' = peer.user_input
    /\ pc' = peer.pc
    /\ run_id' = peer.run_id
    /\ kwargs' = peer.kwargs
    /\ calls' = peer.calls
    /\ consumed' = peer.consumed
    /\ caught' = peer.caught
    /\ out' = peer.out
    /\ answer' = peer.answer
    /\ result' = peer.result
    /\ snapshot' = peer.snapshot
    /\ closed' = peer.closed
    /\ UNCHANGED <<pending, will_raise, uuids, served, store, scores>>

\* The event loop suspends the running task where it awaits or yields and
\* resumes the task of the other request.  Everything message_generator
\* works on is a local of the generator, so it goes with the task; what the
\* tasks share is the process: the uuid source, the checkpointer, the
\* telemetry client.
Switch ==
    /\ peer.pc \notin {"none", "ended"}
    /\ peer' = Running
    /\ user_input' = peer.user_input
    /\ pc' = peer.pc
    /\ run_id' = peer.run_id
    /\ kwargs' = peer.kwargs
    /\ calls' = peer.calls
    /\ consumed' = peer.consumed
    /\ pending' = peer.pending
    /\ will_raise' = peer.will_raise
    /\ caught' = peer.caught
    /\ out' = peer.out
    /\ answer' = peer.answer
    /\ result' = peer.result
    /\ snapshot' = peer.snapshot
    /\ closed' = peer.closed
    /\ UNCHANGED <<uuids, served, store, scores>>

\* --------------------------------------------- history, feedback, sessions

\* schema.ChatHistory returned by history, and schema.FeedbackResponse
\* returned by feedback.
ChatHistory == [kind |-> "history", status |-> 200, detail |-> "", message |-> NoChatMessage]
FeedbackResponse == [kind |-> "success", status |-> 200, detail |-> "", message |-> NoChatMessage]

\* One request the service has finished with.  The fields a kind of request
\* does not have keep the values given here.
NoEntry ==
    [endpoint |-> "", thread_id |-> None, message |-> <<>>, run_id |-> None,
     key |-> "", score |-> 0, comment |-> None, credentials |-> FALSE,
     input |-> NoInput, config |-> NoConfig, calls |-> <<>>, answer |-> NoAnswer,
     result |-> NoResult, out |-> <<>>, history |-> <<>>]

HistoryOutput_reversed(checkpoints, thread_id, raises) ==
    IF raises \/ thread_id \notin DOMAIN checkpoints
       \/ \E i \in 1..Len(ThreadMessages(checkpoints, thread_id)) :
             ConversionRaises(ThreadMessages(checkpoints, thread_id)[i])
    THEN [result |-> HTTPException(500, "Unexpected error"), messages |-> <<>>]
    ELSE LET messages == checkpoints[thread_id]
         IN  [result |-> ChatHistory,
              messages |-> [i \in 1..Len(messages) |->
                              langchain_to_chat_message(messages[Len(messages) + 1 - i])]]

\* history: the messages of the thread's state, each converted, in the
\* state's order; 500 when agent.get_state raises (raises), when the state
\* has no "messages" (a thread the checkpointer has never seen) or when a
\* message cannot be converted.
HistoryOutput(checkpoints, thread_id, raises) ==
    IF raises \/ thread_id \notin DOMAIN checkpoints
       \/ \E i \in 1..Len(ThreadMessages(checkpoints, thread_id)) :
             ConversionRaises(ThreadMessages(checkpoints, thread_id)[i])
    THEN [result |-> HTTPException(500, "Unexpected error"), messages |-> <<>>]
    ELSE LET messages == checkpoints[thread_id]
         IN  [result |-> ChatHistory,
              messages |-> [i \in 1..Len(messages) |->
                              langchain_to_chat_message(messages[i])]]

\* schema.Feedback: run_id, key, score and the optional comment of kwargs.
Feedback(id, key, score, comment) ==
    [run_id |-> id, key |-> key, score |-> score, comment |-> comment]

\* One call of langfuse.score.
Score(id, trace_id, name, value, comment) ==
    [id |-> id, trace_id |-> trace_id, name |-> name, value |-> value, comment |-> comment]

FeedbackScore_swapped(feedback, id) ==
    Score(id, feedback.key, feedback.run_id, feedback.score,
          IF feedback.comment = None THEN "" ELSE feedback.comment)

\* The score feedback forwards: trace_id is the run id, name the key, value
\* the score, comment the comment of kwargs or "".
FeedbackScore(feedback, id) ==
    Score(id, feedback.run_id, feedback.key, feedback.score,
          IF feedback.comment = None THEN "" ELSE feedback.comment)

CredentialsMissing_ignored(credentials) == FALSE

\* `if not public_key or not secret_key`
CredentialsMissing(credentials) == ~credentials

\* The service has finished with the request: its handler is gone and only
\* the record of the request remains.
Finish ==
    /\ pc = "ended"
    /\ served' = Append(served,
            [NoEntry EXCEPT !.endpoint = user_input.endpoint,
                            !.thread_id = user_input.thread_id,
                            !.message = user_input.message,
                            !.run_id = run_id,
                            !.input = kwargs.input,
                            !.config = kwargs.config,
                            !.calls = calls,
                            !.answer = answer,
                            !.result = result,
                            !.out = out])
    /\ pc' = "idle"
    /\ run_id' = None
    /\ kwargs' = [input |-> NoInput, config |-> NoConfig]
    /\ calls' = <<>>
    /\ consumed' = <<>>
    /\ caught' = -1
    /\ out' = <<>>
    /\ answer' = NoAnswer
    /\ result' = NoResult
    /\ snapshot' = NoSnapshot
    /\ closed' = FALSE
    /\ UNCHANGED <<user_input, uuids, pending, will_raise, store, scores, peer>>

\* The next /invoke or /stream request arrives.
Receive(requests, n) ==
    /\ pc = "idle"
    /\ UNCHANGED <<snapshot, closed, peer>>
    /\ Len(served) < n
    /\ user_input' \in requests
    /\ pc' = "start"
    /\ UNCHANGED <<uuids, run_id, kwargs, calls, consumed, pending, will_raise, caught,
                   out, answer, result, served, store, scores>>

\* A /history request is served, between two requests or before the handler
\* of a request that has arrived begins.
History(threads, n) ==
    /\ pc \in {"idle", "start"}
    /\ UNCHANGED <<snapshot, closed, peer>>
    /\ Len(served) < n
    /\ \E thread_id \in threads, raises \in BOOLEAN :
         LET h == HistoryOutput(store, thread_id, raises)
         IN  served' = Append(served,
                 [NoEntry EXCEPT !.endpoint = "history", !.thread_id = thread_id,
                                 !.result = h.result, !.history = h.messages])
    /\ UNCHANGED <<user_input, pc, uuids, run_id, kwargs, calls, consumed, pending,
                   will_raise, caught, out, answer, result, store, scores>>

\* A /feedback request is served.  credentials: whether both Langfuse keys
\* are configured; the client or its score call may raise.
FeedbackRequest(feedbacks, n) ==
    /\ pc \in {"idle", "start"}
    /\ UNCHANGED <<snapshot, closed, peer>>
    /\ Len(served) < n
    /\ \E feedback \in feedbacks, credentials \in BOOLEAN, raises \in BOOLEAN :
         LET entry == [NoEntry EXCEPT !.endpoint = "feedback", !.run_id = feedback.run_id,
                                      !.key = feedback.key, !.score = feedback.score,
                                      !.comment = feedback.comment,
                                      !.credentials = credentials]
         IN  IF CredentialsMissing(credentials)
             THEN /\ served' = Append(served, [entry EXCEPT !.result =
                        HTTPException(500, "Error recording feedback: 500: Langfuse credentials not found")])
                  /\ UNCHANGED <<uuids, scores>>
             ELSE IF raises
             THEN /\ served' = Append(served, [entry EXCEPT !.result =
                        HTTPException(500, "Error recording feedback: telemetry error")])
                  /\ UNCHANGED <<uuids, scores>>
             ELSE /\ served' = Append(served, [entry EXCEPT !.result = FeedbackResponse])
                  /\ uuids' = uuids + 1
                  /\ scores' = Append(scores, FeedbackScore(feedback, Uuid(uuids + 1)))
    /\ UNCHANGED <<user_input, pc, run_id, kwargs, calls, consumed, pending,
                   will_raise, caught, out, answer, result, store>>

\* ------------------------------------------------- the environment's sets

\* All sequences over S of length at most n.
SeqsUpTo(S, n) == UNION {[1..k -> S] : k \in 0..n}

CoreStates == {StateAnswer(TRUE, <<>>), StateAnswer(FALSE, <<>>)}

\* Longest event list agent.ainvoke answers with.
MaxResponseLen == 2

InvokeEvents ==
    { ValuesEvent(<<AIMessage(A)>>),
      ValuesEvent(<<HumanMessage(Q), AIMessage(B)>>),
      ValuesEvent(<<AIMessage(A), ToolMessage(B, "search")>>),
      ValuesEvent(<<AIMessage(A), Opaque>>),
      ValuesEvent(<<>>),
      UpdatesResult(<<Item(InterruptNode, InterruptDelta(<<A, B>>))>>),
      UpdatesResult(<<Item("chat_model", DictDelta(<<AIMessage(B)>>)),
                      Item(InterruptNode, InterruptDelta(<<B>>))>>),
      UpdatesResult(<<Item(InterruptNode, InterruptDelta(<<>>))>>),
      UpdatesResult(<<Item("chat_model", DictDelta(<<AIMessage(A)>>))>>),
      [type |-> "custom", messages |-> <<>>, items |-> <<>>] }

InvokeResponses ==
    {Response(TRUE, <<>>)} \cup {Response(FALSE, es) : es \in SeqsUpTo(InvokeEvents, MaxResponseLen)}

\* The events the streams of Spec are made of.
CoreEvents ==
    { MessagesEvent(Chunk("AIMessageChunk", StrContent(A), FALSE)),
      MessagesEvent(Chunk("AIMessageChunk", StrContent(B), FALSE)),
      MessagesEvent(Chunk("AIMessageChunk", ListContent(<<ToolUsePart>>), FALSE)),
      MessagesEvent(Chunk("AIMessageChunk", StrContent(A), TRUE)),
      MessagesEvent(Chunk("ToolMessage", StrContent(B), FALSE)),
      UpdatesEvent(<<Item("chat_model", DictDelta(<<AIMessage(AB)>>))>>),
      UpdatesEvent(<<Item("chat_model", DictDelta(<<HumanMessage(Q), AIMessage(A)>>))>>),
      UpdatesEvent(<<Item("chat_model", DictDelta(<<HumanMessage(A)>>))>>),
      UpdatesEvent(<<Item("research_expert", DictDelta(<<>>))>>),
      UpdatesEvent(<<Item(InterruptNode, InterruptDelta(<<A>>))>>),
      UpdatesEvent(<<Item("search", Unserializable(NoMessagesDelta(TRUE))),
                     Item("chat_model", DictDelta(<<Opaque, AIMessage(B)>>))>>),
      CustomEvent(Opaque),
      CustomEvent(Fragment("metadata", A)),
      NonTupleEvent }

\* The requests of Spec: both endpoints, a known and an unknown agent, the
\* stream options; no identifiers and no agent_config.
CoreRequests ==
    { UserInput("invoke", a, None, None, None, EmptyDict, TRUE, TRUE) : a \in {DEFAULT_AGENT, "nope"} }
    \cup
    { UserInput("stream", DEFAULT_AGENT, None, None, None, EmptyDict, st, sn) :
        st \in BOOLEAN, sn \in BOOLEAN }
    \cup
    { UserInput("stream", "nope", None, None, None, EmptyDict, TRUE, TRUE) }

\* ------------------------------------------------------------ specification

Init == InitWith(CoreRequests)

Next ==
    \/ HandleInput(CoreStates)
    \/ InvokeRun(InvokeResponses)
    \/ EngineEvent(CoreEvents, MaxEvents)
    \/ EngineRaise
    \/ EngineEnd
    \/ Yield
    \/ Except
    \/ Finally

Spec == Init /\ [][Next]_vars

\* The specification of input handling: requests with and without a thread
\* id, a model, a user id and an agent_config, every answer of aget_state,
\* and a short run after it.
ReservedKeys == {"thread_id", "model", "user_id"}

AgentConfigs ==
    { EmptyDict, Dict1("spicy_level", "0.1"), Dict1("model", "m2"),
      Dict1("user_id", "u2"), Dict1("thread_id", "t2"),
      DictUpdate(Dict1("spicy_level", "0.1"), Dict1("model", "m2")) }

InputRequests ==
    { UserInput(ep, DEFAULT_AGENT, t, m, u, ac, TRUE, TRUE) :
        ep \in {"invoke", "stream"}, t \in {None, "t1"}, m \in {None, "m1"},
        u \in {None, "u1"}, ac \in AgentConfigs }

InputStates ==
    CoreStates \cup {StateAnswer(FALSE, ts) : ts \in {<<0>>, <<1>>, <<0, 1>>}}

InputResponses ==
    { Response(TRUE, <<>>), Response(FALSE, <<ValuesEvent(<<AIMessage(A)>>)>>) }

InputEvents ==
    { UpdatesEvent(<<Item("chat_model", DictDelta(<<HumanMessage(Q), AIMessage(A)>>))>>) }

InitInput == InitWith(InputRequests)

NextInput ==
    \/ HandleInput(InputStates)
    \/ InvokeRun(InputResponses)
    \/ EngineEvent(InputEvents, 1)
    \/ EngineRaise
    \/ EngineEnd
    \/ Yield
    \/ Except
    \/ Finally

SpecInput == InitInput /\ [][NextInput]_vars

\* The specification of single events: a stream of exactly one event, drawn
\* from every shape of node delta, custom payload and token chunk.
WideCandidates ==
    { HumanMessage(Q), AIMessage(A), AIMessage(B), ToolMessage(A, "search"),
      Fragment("content", B), Fragment("metadata", A) }

WideDeltas ==
    {DictDelta(ms) : ms \in SeqsUpTo(WideCandidates, MaxListLen)}
    \cup {NoneDelta, NoMessagesDelta(FALSE), NoMessagesDelta(TRUE),
          Unserializable(DictDelta(<<AIMessage(A)>>))}

WideNodes == {SupervisorNode, "research_expert", "math_expert", "chat_model"}

WideChunks ==
    { Chunk(cls, c, skip) :
        cls \in {"AIMessageChunk", "AIMessage", "ToolMessage"},
        c \in { StrContent(A), StrContent(<<>>), ListContent(<<>>),
                ListContent(<<ToolUsePart>>),
                ListContent(<<TextPart(A), ToolUsePart, TextPart(B)>>) },
        skip \in BOOLEAN }

WideEvents ==
    {UpdatesEvent(<<Item(n, d)>>) : n \in WideNodes, d \in WideDeltas}
    \cup {UpdatesEvent(<<Item(InterruptNode, InterruptDelta(vs))>>) : vs \in {<<>>, <<A>>, <<A, B>>}}
    \cup {UpdatesEvent(<<Item(n1, d1), Item(n2, d2)>>) :
            n1 \in {"chat_model"}, n2 \in {SupervisorNode, "research_expert"},
            d1 \in {DictDelta(<<Fragment("content", A)>>), DictDelta(<<AIMessage(A)>>)},
            d2 \in {DictDelta(<<AIMessage(B)>>), DictDelta(<<Fragment("content", B)>>), NoneDelta}}
    \cup {UpdatesEvent(<<Item(InterruptNode, InterruptDelta(<<A, B>>)),
                         Item("chat_model", DictDelta(<<AIMessage(B)>>))>>)}
    \cup {CustomEvent(m) : m \in WideCandidates \cup {Opaque}}
    \cup {MessagesEvent(c) : c \in WideChunks}
    \cup {NonTupleEvent}

StreamRequests ==
    { UserInput("stream", DEFAULT_AGENT, None, None, None, EmptyDict, st, sn) :
        st \in BOOLEAN, sn \in BOOLEAN }

InitEvent == InitWith(StreamRequests)

NextEvent ==
    \/ HandleInput(CoreStates)
    \/ EngineEvent(WideEvents, 1)
    \/ EngineRaise
    \/ EngineEnd
    \/ Yield
    \/ Except
    \/ Finally

SpecEvent == InitEvent /\ [][NextEvent]_vars

\* The specification of disconnects: streams whose client may go away at any
\* point where the generator is suspended.
CloseEvents ==
    { UpdatesEvent(<<Item("chat_model", DictDelta(<<AIMessage(A)>>))>>),
      UpdatesEvent(<<Item("search", NoMessagesDelta(TRUE)),
                     Item("chat_model", DictDelta(<<AIMessage(A), AIMessage(B)>>))>>),
      MessagesEvent(Chunk("AIMessageChunk", StrContent(A), FALSE)) }

InitClose == InitWith(StreamRequests)

NextClose ==
    \/ HandleInput(CoreStates)
    \/ EngineEvent(CloseEvents, MaxEvents)
    \/ EngineRaise
    \/ EngineEnd
    \/ Yield
    \/ Except
    \/ Finally
    \/ Disconnect

SpecClose == InitClose /\ [][NextClose]_vars

\* The specification of simultaneous requests: two stream requests whose
\* tasks the event loop interleaves at every point where one is suspended.

\* Engine events each of the two requests may consume.
MaxPairEvents == 2

PairRequests ==
    { UserInput("stream", DEFAULT_AGENT, None, None, None, EmptyDict, st, TRUE) :
        st \in BOOLEAN }

PairEvents ==
    { UpdatesEvent(<<Item("chat_model", DictDelta(<<HumanMessage(Q), AIMessage(A)>>))>>),
      UpdatesEvent(<<Item("chat_model",
                          DictDelta(<<Fragment("content", A), Fragment("content", B),
                                      ToolMessage(A, "search")>>))>>),
      MessagesEvent(Chunk("AIMessageChunk", StrContent(B), FALSE)) }

InitPair == InitTask(PairRequests) /\ peer \in {NewTask(r) : r \in PairRequests}

NextPair ==
    \/ HandleInput(CoreStates)
    \/ EngineEvent(PairEvents, MaxPairEvents)
    \/ EngineRaise
    \/ EngineEnd
    \/ Yield
    \/ Except
    \/ Finally
    \/ Switch

SpecPair == InitPair /\ [][NextPair]_vars

\* The specification of sessions: requests served one after another by the
\* research assistant graph (a reformulate_query, search, chatbot, suggest
\* chain over a State whose messages are appended and checkpointed), with
\* /history and /feedback requests between them.

\* Requests the service has finished with that a session remembers.
MaxServed == 2

SessionRequests ==
    { UserInput(ep, DEFAULT_AGENT, t, None, None, EmptyDict, TRUE, TRUE) :
        ep \in {"invoke", "stream"}, t \in {"t1", None} }

SessionStates == CoreStates

\* What agent.ainvoke answers in a session: it raises, or the state after the
\* chatbot's reply, or (an agent of another shape) an event list that ends
\* with an update and no interrupt.
GraphResponses ==
    { Response(TRUE, <<>>),
      Response(FALSE, <<UpdatesResult(<<Item("chatbot", DictDelta(<<AIMessage(B)>>))>>),
                        ValuesEvent(ThreadMessages(store, ThreadOf(kwargs.config))
                                    \o kwargs.input.messages \o <<AIMessage(B)>>)>>),
      Response(FALSE, <<ValuesEvent(ThreadMessages(store, ThreadOf(kwargs.config))
                                    \o kwargs.input.messages \o <<AIMessage(A)>>),
                        UpdatesResult(<<Item("suggest", NoMessagesDelta(TRUE))>>)>>) }

GraphEvents ==
    { UpdatesEvent(<<Item("search", NoMessagesDelta(TRUE))>>),
      UpdatesEvent(<<Item("chatbot", DictDelta(<<AIMessage(A)>>))>>) }

SessionThreads == {"t1", "t2"}

SessionFeedbacks ==
    { Feedback("uuid-1", "human-feedback-stars", 1, None),
      Feedback("run-x", "accuracy", 0, "good") }

InitSession == InitWith(SessionRequests)

NextSession ==
    \/ HandleInput(SessionStates)
    \/ InvokeRun(GraphResponses)
    \/ EngineEvent(GraphEvents, 1)
    \/ EngineRaise
    \/ EngineEnd
    \/ Yield
    \/ Except
    \/ Finally
    \/ Finish
    \/ Receive(SessionRequests, MaxServed)
    \/ History(SessionThreads, MaxServed)
    \/ FeedbackRequest(SessionFeedbacks, MaxServed)

SpecSession == InitSession /\ [][NextSession]_vars

\* ------------------------------------------------------------------ claims

IsStream == user_input.endpoint = "stream"
IsInvoke == user_input.endpoint = "invoke"

\* The generator got past _handle_input: agent.astream was called.
StreamStarted == IsStream /\ \E i \in 1..Len(calls) : calls[i].op = "astream"

FramesOfType(frames, type) == SelectSeq(frames, LAMBDA f : f.type = type)
OuterErrors == SelectSeq(out, LAMBDA f : f.type = "error" /\ f.detail = "Internal server error")
EndsWithDone == out # <<>> /\ out[Len(out)].type = "DONE"

\* C1, as stated: every /stream request, however it goes (an exception at any
\* point of serving it included), ends with exactly one [DONE] frame, the
\* last frame of its stream.
C1_EveryStreamEndsWithDone ==
    (IsStream /\ pc = "ended") =>
        (EndsWithDone /\ Len(FramesOfType(out, "DONE")) = 1)

\* C1, amended: once input handling has succeeded, the stream ends with
\* exactly one [DONE] frame and nothing follows it, whether event consumption
\* ended normally or with an exception in the engine or in event processing;
\* and the generator can always go on until it has ended.
C1_StartedStreamEndsWithDone ==
    /\ \A i \in 1..(Len(out) - 1) : out[i].type # "DONE"
    /\ EndsWithDone => pc = "ended"
    /\ (StreamStarted /\ pc = "ended") =>
          (EndsWithDone /\ Len(FramesOfType(out, "DONE")) = 1 /\ result = Exhausted)
    /\ (StreamStarted /\ pc # "ended") => ENABLED (EngineEnd \/ Yield \/ Except \/ Finally)

\* A stream that met an exception in mid-stream, after frames of an earlier
\* event, and has ended.
C1_Witness ==
    /\ StreamStarted /\ pc = "ended"
    /\ caught >= 2
    /\ Len(out) >= 3
    /\ EndsWithDone

\* Processing the event raised an exception: one that left the loop, or one
\* recovered in place (an error frame for a message that could not be
\* converted, the fallback frame for a node update that could not be
\* serialized).
ProcessingRaised(e) ==
    LET r == ProcessEvent(e, user_input, run_id)
    IN  \/ r.raised
        \/ \E i \in 1..Len(r.msgs) : r.msgs[i].type = "error" \/ r.msgs[i].fallback

\* C2, as stated: when processing an engine event raises, exactly one error
\* frame is emitted, before [DONE], no further event is consumed, and the
\* exception does not leave the generator.
C2_AnyExceptionEndsStream ==
    (StreamStarted /\ pc = "ended") =>
        \A i \in 1..Len(consumed) :
            ProcessingRaised(consumed[i]) =>
                /\ Len(FramesOfType(out, "error")) = 1
                /\ EndsWithDone
                /\ i = Len(consumed)
                /\ result.kind # "exception"

\* C2, amended: an exception that reaches the generator's outer handler (one
\* raised by the engine's event stream, or in event processing outside the
\* locally recovered conversions) yields exactly one "Internal server error"
\* frame, immediately before [DONE]; no event is consumed after it and it does
\* not leave the generator.  Without such an exception there is no such frame.
C2_OuterExceptionEndsStream ==
    /\ caught >= 0 => Len(consumed) = caught /\ pc \in {"except", "finally", "ended"}
    /\ (StreamStarted /\ pc = "ended") =>
          /\ result = Exhausted
          /\ caught = -1 => OuterErrors = <<>>
          /\ caught >= 0 =>
                /\ Len(OuterErrors) = 1
                /\ Len(out) >= 2
                /\ out[Len(out) - 1] = ErrorFrame("Internal server error")
                /\ EndsWithDone
    /\ \A i \in 1..Len(consumed) :
          ProcessEvent(consumed[i], user_input, run_id).raised =>
              /\ i = Len(consumed)
              /\ (pending = <<>> => caught = i)

\* A stream ended by an exception of event processing, after a conversion
\* failure that was recovered in place.
C2_Witness ==
    /\ StreamStarted /\ pc = "ended"
    /\ caught = Len(consumed) /\ caught >= 2
    /\ ProcessEvent(consumed[caught], user_input, run_id).raised
    /\ Len(FramesOfType(out, "error")) = 2

\* C3, as stated: a request whose agent_config holds thread_id, model or
\* user_id is rejected with 422, whether or not the request itself gives a
\* model or a user id, and the engine is neither queried nor invoked for it.
C3_ReservedKeysRejected ==
    ( /\ user_input.agent_id \in Agents
      /\ (DOMAIN user_input.agent_config) \cap ReservedKeys # {}
      /\ pc # "start" ) =>
        /\ result = HTTPException(422, "agent_config contains reserved keys")
        /\ calls = <<>>

\* C4: no message frame of a stream is a human message whose content is the
\* request's message, among the frames yielded and those about to be.
C4_InputNeverEchoed ==
    IsStream =>
        \A i \in 1..Len(out \o pending) :
            LET f == (out \o pending)[i]
            IN  ~(f.type = "message" /\ f.role = "human" /\ f.content = user_input.message)

\* The engine echoed the input in an update next to an answer; the answer was
\* framed, and the stream ended.
C4_Witness ==
    /\ StreamStarted /\ pc = "ended"
    /\ \E i \in 1..Len(consumed) :
          /\ consumed[i].mode = "updates"
          /\ \E j \in 1..Len(consumed[i].items) :
                LET ms == update_messages(consumed[i].items[j].delta)
                IN  \E k \in 1..Len(ms) : ms[k] = HumanMessage(user_input.message)
    /\ \E i \in 1..Len(out) : out[i].type = "message" /\ out[i].role = "ai"
    /\ \E i \in 1..Len(out) : out[i].type = "message" /\ out[i].role = "human"

\* The stream consumed exactly one event, an update of the one node `node`,
\* and has ended.
SingleNodeStreamEnded(nodes) ==
    /\ StreamStarted /\ pc = "ended"
    /\ Len(consumed) = 1
    /\ consumed[1].mode = "updates"
    /\ Len(consumed[1].items) = 1
    /\ consumed[1].items[1].node \in nodes

TheNode == consumed[1].items[1].node
TheList == update_messages(consumed[1].items[1].delta)
MessageFramesOut == FramesOfType(out, "message")
AssistantFramesOut == SelectSeq(out, LAMBDA f : f.type = "message" /\ f.role = "ai")

\* C5, as stated: an update of research_expert or math_expert is surfaced,
\* whatever its delta, as a tool message named after the node, and never as
\* an assistant message.
C5_SubAgentAlwaysTool ==
    SingleNodeStreamEnded(SubAgentNodes) =>
        /\ \E i \in 1..Len(out) :
              out[i].type = "message" /\ out[i].role = "tool" /\ out[i].name = TheNode
        /\ AssistantFramesOut = <<>>

RECURSIVE FragmentRuns(_)
\* The number of maximal runs of consecutive tuple fragments of a list.
FragmentRuns(ms) ==
    IF ms = <<>> THEN 0
    ELSE IF IsTuple(Head(ms)) /\ (Len(ms) = 1 \/ ~IsTuple(ms[2]))
         THEN 1 + FragmentRuns(Tail(ms))
         ELSE FragmentRuns(Tail(ms))

AIMessagesOf(ms) == SelectSeq(ms, IsAIMessage)

\* C6, as stated: a supervisor update with N AI messages yields at most one
\* assistant message frame, and that frame is the last of the N.
C6_SupervisorAtMostOne ==
    SingleNodeStreamEnded({SupervisorNode}) =>
        LET ai == AIMessagesOf(TheList)
        IN  /\ Len(AssistantFramesOut) <= 1
            /\ Len(AssistantFramesOut) = 1 =>
                  /\ ai # <<>>
                  /\ AssistantFramesOut[1].content = ai[Len(ai)].content

\* C6, amended: a supervisor update with N >= 1 AI messages yields one
\* message frame, the last of the N, as an assistant message; with N = 0 no
\* message of the delta is surfaced as an assistant message, and assistant
\* frames arise only from the tuple fragments of the list, at most one per
\* run of fragments.
C6_SupervisorLastAI ==
    SingleNodeStreamEnded({SupervisorNode}) =>
        LET ai == AIMessagesOf(TheList)
        IN  /\ ai # <<>> =>
                  /\ Len(MessageFramesOut) = 1
                  /\ MessageFramesOut[1].role = "ai"
                  /\ MessageFramesOut[1].content = ai[Len(ai)].content
            /\ ai = <<>> => Len(AssistantFramesOut) <= FragmentRuns(TheList)

\* A supervisor update with two different AI messages and another message
\* after them, of which one assistant frame came out.
C6_Witness ==
    /\ SingleNodeStreamEnded({SupervisorNode})
    /\ Len(AIMessagesOf(TheList)) = 2
    /\ AIMessagesOf(TheList)[1] # AIMessagesOf(TheList)[2]
    /\ Len(TheList) = 3 /\ ~IsAIMessage(TheList[3])
    /\ Len(AssistantFramesOut) = 1

\* C7: with stream_tokens false a stream carries no token frame, yielded or
\* about to be.
C7_NoTokensUnlessAsked ==
    (IsStream /\ ~user_input.stream_tokens) => FramesOfType(out \o pending, "token") = <<>>

\* The text of a content, tool-call parts left out.
TextOf(c) ==
    IF c.kind = "str" THEN c.text
    ELSE Flatten([i \in 1..Len(c.parts) |->
                    IF c.parts[i].type = "text" THEN c.parts[i].text ELSE <<>>])

\* The text the engine streamed in an event: that of an AI chunk not tagged
\* skip_stream.
StreamedText(e) ==
    IF e.mode = "messages" /\ e.chunk.cls = "AIMessageChunk" /\ ~e.chunk.skip
    THEN TextOf(e.chunk.content) ELSE <<>>

EngineText == Flatten([i \in 1..Len(consumed) |-> StreamedText(consumed[i])])
TokenConcat == Flatten([i \in 1..Len(FramesOfType(out, "token")) |->
                          FramesOfType(out, "token")[i].content])

\* A stream with stream_tokens false consumed a chunk it would have streamed
\* and ended.
C7_Witness ==
    /\ StreamStarted /\ pc = "ended" /\ ~user_input.stream_tokens
    /\ EngineText # <<>>
    /\ MessageFramesOut # <<>>

\* C8, as stated: with stream_tokens true, the token frames of a request
\* concatenate to the content of its final assistant message.
C8_TokensSpellFinalMessage ==
    (StreamStarted /\ user_input.stream_tokens /\ pc = "ended" /\ AssistantFramesOut # <<>>) =>
        TokenConcat = AssistantFramesOut[Len(AssistantFramesOut)].content

\* C8, amended: with stream_tokens true, the token frames concatenate, in
\* order, to the text of the AI chunks the engine streamed (those not tagged
\* skip_stream, tool-call parts left out); they concatenate to the final
\* assistant message's content when the engine's chunks spell that message.
C8_TokensSpellEngineChunks ==
    (StreamStarted /\ user_input.stream_tokens /\ pc = "ended") =>
        /\ TokenConcat = EngineText
        /\ (AssistantFramesOut # <<>>
            /\ EngineText = AssistantFramesOut[Len(AssistantFramesOut)].content)
              => TokenConcat = AssistantFramesOut[Len(AssistantFramesOut)].content

\* Two tokens and then the message they spell.
C8_Witness ==
    /\ StreamStarted /\ user_input.stream_tokens /\ pc = "ended"
    /\ Len(FramesOfType(out, "token")) = 2
    /\ AssistantFramesOut # <<>>
    /\ TokenConcat = AssistantFramesOut[Len(AssistantFramesOut)].content
    /\ TokenConcat = AB

\* invoke got an answer from agent.ainvoke that ended with an event of this
\* type.
InvokeAnswered(type) ==
    /\ IsInvoke /\ pc = "ended"
    /\ \E i \in 1..Len(calls) : calls[i].op = "ainvoke"
    /\ ~answer.raises
    /\ answer.events # <<>>
    /\ answer.events[Len(answer.events)].type = type

TerminalEvent == answer.events[Len(answer.events)]

\* The role a message of the engine has.
RoleOf(m) ==
    CASE m.cls = "HumanMessage" -> "human"
      [] m.cls = "ToolMessage" -> "tool"
      [] m.cls \in {"AIMessage", "AIMessageChunk"} -> "ai"
      [] OTHER -> "unknown"

\* C9: when the last event agent.ainvoke returned is a "values" event, the
\* message invoke returns has the content and the role of the last message of
\* that event's list, whatever events came before it; invoke returns no
\* message only when that list is empty or its last entry is no message, and
\* then it raises 500.
C9_ValuesTerminalEvent ==
    InvokeAnswered("values") =>
        LET ms == TerminalEvent.messages
        IN  IF ms # <<>> /\ RoleOf(ms[Len(ms)]) # "unknown"
            THEN /\ result.kind = "message"
                 /\ result.message.content = ms[Len(ms)].content
                 /\ result.message.type = RoleOf(ms[Len(ms)])
            ELSE result = HTTPException(500, "Unexpected error")

\* An updates event came first, then a values event of two messages of
\* different roles and contents; the last one was returned.
C9_Witness ==
    /\ InvokeAnswered("values")
    /\ Len(answer.events) = 2
    /\ answer.events[1].type = "updates"
    /\ Len(TerminalEvent.messages) = 2
    /\ TerminalEvent.messages[1].cls # TerminalEvent.messages[2].cls
    /\ TerminalEvent.messages[1].content # TerminalEvent.messages[2].content
    /\ result.kind = "message"

\* The interrupts of the terminal event, read off the event.
TerminalInterrupts ==
    LET items == TerminalEvent.items
        marked == {i \in 1..Len(items) : items[i].node = "__interrupt__"}
    IN  IF marked = {} THEN <<>> ELSE items[CHOOSE i \in marked : TRUE].delta.interrupts

\* C10: when the last event agent.ainvoke returned is an "updates" event with
\* the interrupt marker, invoke returns an AI message whose content is the
\* value of the first interrupt of that event, also when a "values" event
\* came before it; with the marker and no interrupt it raises 500.
C10_InterruptTerminalEvent ==
    (InvokeAnswered("updates")
     /\ \E i \in 1..Len(TerminalEvent.items) : TerminalEvent.items[i].node = "__interrupt__") =>
        IF TerminalInterrupts # <<>>
        THEN /\ result.kind = "message"
             /\ result.message.type = "ai"
             /\ result.message.content = TerminalInterrupts[1]
        ELSE result = HTTPException(500, "Unexpected error")

\* A values event came first, then an updates event with two interrupts next
\* to nothing else; the first interrupt's value was returned.
C10_Witness ==
    /\ InvokeAnswered("updates")
    /\ Len(answer.events) = 2
    /\ answer.events[1].type = "values"
    /\ answer.events[1].messages # <<>>
    /\ Len(TerminalInterrupts) = 2
    /\ TerminalInterrupts[1] # TerminalInterrupts[2]
    /\ result.kind = "message"
    /\ result.message.content = TerminalInterrupts[1]

\* The request of a record is an /invoke request that agent.ainvoke answered
\* with a list of events.
Answered(e) ==
    /\ e.endpoint = "invoke"
    /\ \E i \in 1..Len(e.calls) : e.calls[i].op = "ainvoke"
    /\ ~e.answer.raises
    /\ e.answer.events # <<>>

LastEvent(e) == e.answer.events[Len(e.answer.events)]

\* The terminal event of the answer is neither a "values" event nor an
\* "updates" event with the interrupt marker.
UnexpectedShape(e) ==
    /\ Answered(e)
    /\ LastEvent(e).type # "values"
    /\ ~(LastEvent(e).type = "updates"
         /\ \E i \in 1..Len(LastEvent(e).items) : LastEvent(e).items[i].node = "__interrupt__")

\* The request of a record got what its own run gave: an /invoke whose answer
\* ends with a "values" event got the last message of that event under its
\* own run id, and a /stream that reached the engine got a stream ending
\* with the sentinel.
HandledNormally(e) ==
    /\ (Answered(e) /\ LastEvent(e).type = "values" /\ LastEvent(e).messages # <<>>) =>
          LET m == LastEvent(e).messages[Len(LastEvent(e).messages)]
          IN  /\ e.result.kind = "message"
              /\ e.result.message.content = m.content
              /\ e.result.message.run_id = e.run_id
    /\ (e.endpoint = "stream" /\ \E i \in 1..Len(e.calls) : e.calls[i].op = "astream") =>
          (e.out # <<>> /\ e.out[Len(e.out)].type = "DONE")

\* C11: an /invoke request whose engine answer ends with an event that is
\* neither "values" nor an interrupt update returns no message and fails
\* with a 500; the requests served after it are handled normally.
C11_UnexpectedShapeFailsLocally ==
    \A i \in 1..Len(served) :
        UnexpectedShape(served[i]) =>
            /\ served[i].result.kind = "http"
            /\ served[i].result.status = 500
            /\ served[i].result.message = NoChatMessage
            /\ \A j \in (i + 1)..Len(served) : HandledNormally(served[j])
            /\ pc = "ended" => HandledNormally([NoEntry EXCEPT !.endpoint = user_input.endpoint,
                                   !.run_id = run_id, !.calls = calls, !.answer = answer,
                                   !.result = result, !.out = out])

\* A request failed on an unexpected terminal event, and the /invoke request
\* served after it on the same thread returned its message.
C11_Witness ==
    /\ Len(served) = 2
    /\ UnexpectedShape(served[1])
    /\ served[1].result.status = 500
    /\ Answered(served[2])
    /\ served[2].thread_id = served[1].thread_id
    /\ served[2].result.kind = "message"

CallsOf(op) == SelectSeq(calls, LAMBDA c : c.op = op)

\* The engine raised while the /invoke request was served: in the state
\* query (the handler ended after it, before the run) or in the run.
EngineRaisedInInvoke ==
    /\ IsInvoke /\ pc = "ended"
    /\ \/ (CallsOf("aget_state") # <<>> /\ CallsOf("ainvoke") = <<>>)
       \/ (CallsOf("ainvoke") # <<>> /\ answer.raises)

\* C12, as stated: an exception of the engine during the state query or the
\* run of an /invoke request reaches the caller as a 500 with the detail
\* "Unexpected error", and the engine is invoked at most once.
C12_EngineExceptionIsOpaque500 ==
    /\ Len(CallsOf("ainvoke")) <= 1
    /\ EngineRaisedInInvoke => result = HTTPException(500, "Unexpected error")

\* The handler got its input from _handle_input.
InputHandled == pc \in {"run", "loop", "yield", "except", "finally", "ended"}
                /\ kwargs.input.kind # "none"

RunCalls == SelectSeq(calls, LAMBDA c : c.op \in {"ainvoke", "astream"})

\* C13: the input of the run is Command(resume = the request's message) if
\* and only if a task of the state queried for the thread has interrupts,
\* and one fresh human message with the request's message otherwise; the
\* state is queried, under the configuration of the run, before the run.
C13_ResumeIffInterrupted ==
    /\ InputHandled =>
          /\ kwargs.input.kind = "resume"
                <=> \E i \in 1..Len(snapshot.tasks) : snapshot.tasks[i] > 0
          /\ kwargs.input.kind = "resume" =>
                (kwargs.input.resume = user_input.message /\ kwargs.input.messages = <<>>)
          /\ kwargs.input.kind # "resume" =>
                /\ Len(kwargs.input.messages) = 1
                /\ kwargs.input.messages[1].cls = "HumanMessage"
                /\ kwargs.input.messages[1].content = user_input.message
    /\ \A i \in 1..Len(calls) :
          calls[i].op \in {"ainvoke", "astream"} =>
              /\ i > 1
              /\ calls[1].op = "aget_state"
              /\ calls[1].config = calls[i].config
              /\ calls[i].input = kwargs.input
    /\ Len(RunCalls) <= 1

\* The state had a task without interrupts and a task with one, and the
\* engine was run with the resume command.
C13_Witness ==
    /\ snapshot.tasks = <<0, 1>>
    /\ kwargs.input.kind = "resume"
    /\ RunCalls # <<>>
    /\ pc = "ended"

\* The record is that of a message posted under a thread id whose run
\* completed: an /invoke that returned a message, or a /stream whose engine
\* stream was consumed to its end without an error.
PostCompleted(e) ==
    /\ e.thread_id # None
    /\ e.input.kind = "messages"
    /\ \/ (e.endpoint = "invoke" /\ e.result.kind = "message")
       \/ /\ e.endpoint = "stream"
          /\ e.out # <<>> /\ e.out[Len(e.out)].type = "DONE"
          /\ \A i \in 1..Len(e.out) : e.out[i].type # "error"

\* The contents of the assistant replies the request was given.
RepliesOf(e) ==
    IF e.endpoint = "invoke" THEN {e.result.message.content}
    ELSE {e.out[i].content : i \in {k \in 1..Len(e.out) :
                                      e.out[k].type = "message" /\ e.out[k].role = "ai"}}

\* C14: when a message was posted under a thread id and its run completed, a
\* later /history of that thread lists the human message and, after it, each
\* assistant reply of the run, with their contents and roles.
C14_HistoryRoundTrip ==
    \A i \in 1..Len(served) : \A j \in (i + 1)..Len(served) :
        ( /\ PostCompleted(served[i])
          /\ served[j].endpoint = "history"
          /\ served[j].thread_id = served[i].thread_id
          /\ served[j].result = ChatHistory ) =>
            LET h == served[j].history
            IN  \E a \in 1..Len(h) :
                  /\ h[a].type = "human"
                  /\ h[a].content = served[i].message
                  /\ \A reply \in RepliesOf(served[i]) :
                        \E b \in (a + 1)..Len(h) : h[b].type = "ai" /\ h[b].content = reply

\* A message was posted with /invoke under a thread id, the reply came back,
\* and /history of the thread returned the two messages.
C14_Witness ==
    /\ Len(served) = 2
    /\ served[1].endpoint = "invoke"
    /\ PostCompleted(served[1])
    /\ served[2].endpoint = "history"
    /\ served[2].thread_id = served[1].thread_id
    /\ Len(served[2].history) = 2
    /\ served[2].history[1].content # served[2].history[2].content

\* C15: one run id is drawn per request; every call of the engine for the
\* request carries it in its configuration, the message /invoke returns
\* carries it, and so does every message frame and every node_update frame
\* of a stream, yielded or about to be.
C15_OneRunId ==
    /\ \A i \in 1..Len(calls) :
          /\ calls[i].config.run_id = run_id
          /\ run_id # None
          /\ run_id # ThreadOf(calls[i].config)
    /\ result.kind = "message" => (result.message.run_id = run_id /\ run_id # None)
    /\ \A i \in 1..Len(out \o pending) :
          LET f == (out \o pending)[i]
          IN  f.type \in {"message", "node_update"} => (f.run_id = run_id /\ run_id # None)

\* A stream yielded a fallback node_update frame, an error frame for a
\* message that could not be converted and the frame of the message after it.
C15_Witness ==
    /\ StreamStarted /\ pc = "ended"
    /\ \E i \in 1..Len(out) : out[i].type = "node_update" /\ out[i].fallback
    /\ \E i \in 1..Len(out) : out[i].type = "node_update" /\ ~out[i].fallback
    /\ \E i \in 1..Len(out) : out[i].type = "message" /\ out[i].run_id = run_id

\* C16: the configuration of every engine call holds the request's thread
\* id when it gives one and a freshly drawn one otherwise, the request's
\* model and user id when it gives them, and every entry of agent_config
\* with its value.
C16_RunConfiguration ==
    \A i \in 1..Len(calls) :
        LET c == calls[i].config.configurable
        IN  /\ "thread_id" \in DOMAIN c
            /\ IF Given(user_input.thread_id)
               THEN c["thread_id"] = user_input.thread_id
               ELSE /\ c["thread_id"] \in {Uuid(n) : n \in 1..uuids}
                    /\ c["thread_id"] # calls[i].config.run_id
            /\ Given(user_input.model) =>
                  ("model" \in DOMAIN c /\ c["model"] = user_input.model)
            /\ Given(user_input.user_id) =>
                  ("user_id" \in DOMAIN c /\ c["user_id"] = user_input.user_id)
            /\ \A k \in DOMAIN user_input.agent_config :
                  k \in DOMAIN c /\ c[k] = user_input.agent_config[k]

\* The engine was run for a request that gave a thread id, a model, a user
\* id and an agent_config entry of its own.
C16_Witness ==
    /\ pc = "ended"
    /\ RunCalls # <<>>
    /\ Given(user_input.thread_id) /\ Given(user_input.model) /\ Given(user_input.user_id)
    /\ DOMAIN user_input.agent_config = {"spicy_level"}
    /\ DOMAIN RunCalls[1].config.configurable = {"thread_id", "model", "user_id", "spicy_level"}

\* C17: a /feedback request that returns {status: "success"} has forwarded
\* exactly one score, whose trace id is the request's run_id, whose name is
\* its key and whose value is its score; a request that fails returns 500
\* and forwards nothing, and without credentials every request fails so.
C17_FeedbackForwardsOneScore ==
    [][ (Len(served') = Len(served) + 1 /\ served'[Len(served')].endpoint = "feedback") =>
          LET e == served'[Len(served')]
          IN  /\ e.result = FeedbackResponse \/ (e.result.kind = "http" /\ e.result.status = 500)
              /\ e.result = FeedbackResponse =>
                    /\ Len(scores') = Len(scores) + 1
                    /\ SubSeq(scores', 1, Len(scores)) = scores
                    /\ scores'[Len(scores')].trace_id = e.run_id
                    /\ scores'[Len(scores')].name = e.key
                    /\ scores'[Len(scores')].value = e.score
              /\ e.result # FeedbackResponse => scores' = scores
              /\ ~e.credentials => e.result # FeedbackResponse
      ]_vars

\* One feedback was forwarded and answered with success, and one sent
\* without credentials was answered with 500 and not forwarded.
C17_Witness ==
    /\ Len(served) = 2
    /\ served[1].endpoint = "feedback" /\ served[1].result = FeedbackResponse
    /\ served[2].endpoint = "feedback" /\ ~served[2].credentials
    /\ served[2].result.status = 500
    /\ Len(scores) = 1
    /\ scores[1].trace_id = served[1].run_id
    /\ scores[1].name = served[1].key
    /\ scores[1].value = served[1].score
    /\ scores[1].trace_id # scores[1].name

RECURSIVE RunLength(_)
\* The length of the run of tuple fragments a list starts with.
RunLength(ms) ==
    IF ms = <<>> \/ ~IsTuple(Head(ms)) THEN 0 ELSE 1 + RunLength(Tail(ms))

\* The AI message built from a run of fragments: its content is that of the
\* run's last "content" fragment (empty when the run has none).
Synthesized(run) ==
    LET cs == SelectSeq(run, LAMBDA f : f.key = "content")
    IN  AIMessage(IF cs = <<>> THEN Empty ELSE cs[Len(cs)].content)

RECURSIVE ExpectedAssembly(_)
\* The candidate list with every maximal run of fragments replaced by the
\* one message built from it.
ExpectedAssembly(ms) ==
    IF ms = <<>> THEN <<>>
    ELSE IF IsTuple(Head(ms))
         THEN <<Synthesized(SubSeq(ms, 1, RunLength(ms)))>>
              \o ExpectedAssembly(SubSeq(ms, RunLength(ms) + 1, Len(ms)))
         ELSE <<Head(ms)>> \o ExpectedAssembly(Tail(ms))

\* C18, as stated: the messages surfaced for the candidate list of an event
\* are those of the list in order, every maximal run of tuple fragments
\* replaced by exactly one AI message built from the run.
C18_RunsBecomeOneMessage ==
    SingleNodeStreamEnded({"chat_model"}) =>
        MessageFramesOut =
            FramesOfType(MessageFrames(ExpectedAssembly(TheList), user_input.message, run_id),
                         "message")

\* An event in which nothing but serialization can fail: a token chunk, an
\* item that is no tuple, a custom payload that is a message or an object,
\* or an update of plain nodes and the interrupt marker whose message lists
\* hold no fragment.
OnlySerializationCanFail(e) ==
    \/ e.mode \in {"messages", "nontuple"}
    \/ e.mode = "custom" /\ ~IsTuple(e.payload)
    \/ /\ e.mode = "updates"
       /\ \A i \in 1..Len(e.items) :
             /\ e.items[i].node \notin SubAgentNodes \cup {SupervisorNode}
             /\ \A k \in 1..Len(e.items[i].delta.messages) :
                   ~IsTuple(e.items[i].delta.messages[k])

RECURSIVE CandidatesOfItems(_)
CandidatesOfItems(items) ==
    IF items = <<>> THEN <<>>
    ELSE LET d == Head(items).delta
         IN  (IF Head(items).node = "__interrupt__"
              THEN [i \in 1..Len(d.interrupts) |-> AIMessage(d.interrupts[i])]
              ELSE IF d.kind = "dict" /\ d.has_messages THEN d.messages ELSE <<>>)
             \o CandidatesOfItems(Tail(items))

\* The candidate messages of such an event.
CandidatesOf(e) ==
    CASE e.mode = "updates" -> CandidatesOfItems(e.items)
      [] e.mode = "custom" -> <<e.payload>>
      [] OTHER -> <<>>

RECURSIVE Sum(_)
Sum(ns) == IF ns = <<>> THEN 0 ELSE Head(ns) + Sum(Tail(ns))

\* Over the events consumed: the node updates that cannot be serialized, the
\* candidate messages that cannot be converted, and those that are framed.
UnserializableUpdates ==
    Sum([i \in 1..Len(consumed) |->
            Len(SelectSeq(consumed[i].items, LAMBDA it : ~it.delta.serializable))])
UnconvertibleMessages ==
    Sum([i \in 1..Len(consumed) |->
            Len(SelectSeq(CandidatesOf(consumed[i]), LAMBDA m : RoleOf(m) = "unknown"))])
FramedMessages ==
    Sum([i \in 1..Len(consumed) |->
            Len(SelectSeq(CandidatesOf(consumed[i]),
                          LAMBDA m : /\ RoleOf(m) # "unknown"
                                     /\ ~(RoleOf(m) = "human"
                                          /\ m.content = user_input.message)))])

\* C19: while the events consumed are ones in which only serialization can
\* fail, processing never raises: every node update that cannot be
\* serialized gets its fallback node_update frame (when node updates are
\* streamed), every message that cannot be converted gets its error frame,
\* and every other message of those events, before or after a failing one,
\* is still framed.
C19_SerializationFailuresAreLocal ==
    (StreamStarted /\ \A i \in 1..Len(consumed) : OnlySerializationCanFail(consumed[i])) =>
        LET frames == out \o pending
        IN  /\ ~will_raise
            /\ Len(SelectSeq(frames, LAMBDA f : f.type = "node_update" /\ f.fallback))
                 = (IF user_input.stream_node_updates THEN UnserializableUpdates ELSE 0)
            /\ Len(SelectSeq(frames, LAMBDA f : f.type = "error"
                                               /\ f.detail = "Unexpected error"))
                 = UnconvertibleMessages
            /\ Len(FramesOfType(frames, "message")) = FramedMessages

\* An event with an update that cannot be serialized and a message that
\* cannot be converted got its fallback frame, its error frame and the frame
\* of the message after the failing one; the next event's message was
\* framed too, and the stream ended without an internal error.
C19_Witness ==
    /\ StreamStarted /\ pc = "ended" /\ user_input.stream_node_updates
    /\ Len(consumed) = 2
    /\ UnserializableUpdates = 1 /\ UnconvertibleMessages = 1
    /\ consumed[1].mode = "updates" /\ Len(consumed[1].items) = 2
    /\ consumed[2].mode = "updates" /\ Len(consumed[2].items) = 1
    /\ Len(out) = 7
    /\ out[1].type = "node_update" /\ out[1].fallback
    /\ out[2].type = "node_update" /\ ~out[2].fallback
    /\ out[3].type = "error"
    /\ out[4].type = "message"
    /\ out[5].type = "node_update"
    /\ out[6].type = "message"
    /\ out[7].type = "DONE"

\* Once the transport has closed the stream, the generator takes no further
\* event from the engine and makes no further call to it, and it yields no
\* further frame.
NoEventAfterClose == closed => (consumed' = consumed /\ calls' = calls)
NoFrameAfterClose == closed => out' = out

\* C20, as stated: after the output sink of a stream is closed while events
\* remain, no further engine event is requested and the generator ends
\* without attempting to emit a further frame.
C20_ClosedStreamStopsQuietly == [][NoEventAfterClose /\ NoFrameAfterClose]_vars

\* The part of C20 that the code keeps: nothing is asked of the engine after
\* the close.
C20_NoEngineRequestAfterClose == [][NoEventAfterClose]_vars

RECURSIVE FramesOfEvents(_)
\* The frames of a sequence of events, event after event.
FramesOfEvents(es) ==
    IF es = <<>> THEN <<>>
    ELSE ProcessEvent(Head(es), user_input, run_id).msgs \o FramesOfEvents(Tail(es))

\* The frames yielded before the outer handler's error frame and the
\* sentinel.
LoopFrames ==
    SelectSeq(out, LAMBDA f : ~(f.type = "DONE"
                                \/ (f.type = "error" /\ f.detail = "Internal server error")))

\* C21: the frames of a stream are the frames of the events consumed, each
\* event's frames once and in the arrival order of the events; and whenever
\* the generator asks the engine for its next event, every frame of the
\* events consumed so far has been yielded.
C21_FramesInArrivalOrder ==
    StreamStarted =>
        /\ LoopFrames \o pending = FramesOfEvents(consumed)
        /\ pc = "loop" => (pending = <<>> /\ out = FramesOfEvents(consumed))

\* A stream of three events, the first with two frames or more and the second
\* a different event with a frame of its own, has ended normally.
C21_Witness ==
    /\ StreamStarted /\ pc = "ended" /\ caught = -1
    /\ Len(consumed) = 3
    /\ consumed[1] # consumed[2]
    /\ Len(ProcessEvent(consumed[1], user_input, run_id).msgs) >= 2
    /\ Len(ProcessEvent(consumed[2], user_input, run_id).msgs) >= 1
    /\ Len(ProcessEvent(consumed[3], user_input, run_id).msgs) >= 1

\* A node delta that is not empty: a dict with a key, or a list of pending
\* interrupts with an element.
NonEmptyDelta(d) ==
    \/ d.kind = "dict" /\ (d.has_messages \/ d.extra)
    \/ d.kind = "interrupts" /\ d.interrupts # <<>>

\* The frames of the events consumed, yielded or about to be.
EventFrames == LoopFrames \o pending

\* C22: for a node-update event, with stream_node_updates not false there is
\* exactly one node_update frame per (node, delta) pair, in the order of the
\* pairs, naming the node and with has_updates true exactly for a non-empty
\* delta, and no other frame of the event precedes a node_update frame; with
\* stream_node_updates false there is no node_update frame and the other
\* frames are those of the same event with node updates streamed.
C22_OneNodeUpdatePerPair ==
    (StreamStarted /\ Len(consumed) = 1 /\ consumed[1].mode = "updates") =>
        LET items == consumed[1].items
            nu == FramesOfType(EventFrames, "node_update")
            others == SelectSeq(EventFrames, LAMBDA f : f.type # "node_update")
            streamed == ProcessEvent(consumed[1],
                                     [user_input EXCEPT !.stream_node_updates = TRUE],
                                     run_id).msgs
        IN  /\ user_input.stream_node_updates # FALSE =>
                /\ Len(nu) = Len(items)
                /\ \A i \in 1..Len(nu) :
                      /\ nu[i].node = items[i].node
                      /\ nu[i].has_updates = NonEmptyDelta(items[i].delta)
                      /\ EventFrames[i].type = "node_update"
            /\ user_input.stream_node_updates = FALSE => nu = <<>>
            /\ others = SelectSeq(streamed, LAMBDA f : f.type # "node_update")

\* An event of two pairs, the first with a message and the second with an
\* empty delta, was streamed with node updates: two node_update frames, then
\* the message frame.
C22_Witness ==
    /\ StreamStarted /\ pc = "ended" /\ user_input.stream_node_updates
    /\ Len(consumed) = 1 /\ consumed[1].mode = "updates" /\ Len(consumed[1].items) = 2
    /\ Len(out) = 4
    /\ out[1].type = "node_update" /\ out[1].has_updates
    /\ out[2].type = "node_update" /\ ~out[2].has_updates
    /\ out[3].type = "message"
    /\ out[4].type = "DONE"

\* The same kind of event streamed without node updates: only its message
\* frame.
C22_WitnessOff ==
    /\ StreamStarted /\ pc = "ended" /\ ~user_input.stream_node_updates
    /\ Len(consumed) = 1 /\ consumed[1].mode = "updates" /\ Len(consumed[1].items) = 2
    /\ Len(out) = 2 /\ out[1].type = "message"

\* The message frame of an assistant message with the given content.
AssistantFrame(content) == MessageFrame([ChatMessage("ai", content, "") EXCEPT !.run_id = run_id])

\* A pair of a plain node (neither the supervisor nor a sub-agent) whose
\* messages are complete messages.
PlainItem(it) ==
    /\ it.node \notin SubAgentNodes \cup {SupervisorNode, InterruptNode}
    /\ \A k \in 1..Len(it.delta.messages) : ~IsTuple(it.delta.messages[k])

RECURSIVE InterruptEventFrames(_)
\* What C23 expects of the pairs of an event: for the interrupt marker one
\* assistant frame per pending interrupt, in order, with the interrupt's
\* value; for a plain node the frames of its messages.
InterruptEventFrames(items) ==
    IF items = <<>> THEN <<>>
    ELSE LET it == Head(items)
         IN  (IF it.node = InterruptNode
              THEN [i \in 1..Len(it.delta.interrupts) |-> AssistantFrame(it.delta.interrupts[i])]
              ELSE MessageFrames(it.delta.messages, user_input.message, run_id))
             \o InterruptEventFrames(Tail(items))

\* C23: in a stream, the pair of the interrupt marker gives one assistant
\* message per pending interrupt, in order and with the interrupt's value as
\* content, nothing else is done with that pair, the stream is not aborted
\* by it, and the plain nodes of the same event give their messages as
\* usual.
C23_InterruptsBecomeAIMessages ==
    (/\ StreamStarted /\ Len(consumed) = 1 /\ consumed[1].mode = "updates"
     /\ \E i \in 1..Len(consumed[1].items) : consumed[1].items[i].node = InterruptNode
     /\ \A i \in 1..Len(consumed[1].items) :
           consumed[1].items[i].node = InterruptNode \/ PlainItem(consumed[1].items[i]))
    => /\ SelectSeq(EventFrames, LAMBDA f : f.type # "node_update")
            = InterruptEventFrames(consumed[1].items)
       /\ ~will_raise
       /\ ~ProcessEvent(consumed[1], user_input, run_id).raised

\* An event with two pending interrupts and a plain node's message was
\* streamed: three assistant frames, the interrupts' values first.
C23_Witness ==
    /\ StreamStarted /\ pc = "ended" /\ caught = -1
    /\ Len(consumed) = 1 /\ consumed[1].mode = "updates" /\ Len(consumed[1].items) = 2
    /\ consumed[1].items[1].node = InterruptNode
    /\ consumed[1].items[1].delta.interrupts = <<A, B>>
    /\ FramesOfType(out, "message") = <<AssistantFrame(A), AssistantFrame(B), AssistantFrame(B)>>

\* A chunk content that is not empty once its tool-call parts are removed: a
\* text with a character, or a part list with a part that is no tool call.
NonEmptyAfterRemoval(content) ==
    IF content.kind = "str" THEN content.text # <<>>
    ELSE \E i \in 1..Len(content.parts) : content.parts[i].type # "tool_use"

\* C24: a token-delta event gives exactly one frame, a token frame, when
\* stream_tokens is true, the metadata tags do not hold skip_stream, the
\* chunk is an AIMessageChunk and its content is not empty after the
\* tool-call parts are removed; otherwise it gives no frame at all.
C24_TokenFrameIffStreamable ==
    (StreamStarted /\ Len(consumed) = 1 /\ consumed[1].mode = "messages") =>
        LET chunk == consumed[1].chunk
            streamable == /\ user_input.stream_tokens
                          /\ ~chunk.skip
                          /\ chunk.cls = "AIMessageChunk"
                          /\ NonEmptyAfterRemoval(chunk.content)
        IN  /\ Len(EventFrames) = (IF streamable THEN 1 ELSE 0)
            /\ \A i \in 1..Len(EventFrames) : EventFrames[i].type = "token"

\* A chunk whose content holds two text parts around a tool-call part was
\* streamed as one token frame with the two texts.
C24_Witness ==
    /\ StreamStarted /\ pc = "ended" /\ caught = -1
    /\ Len(consumed) = 1 /\ consumed[1].mode = "messages"
    /\ consumed[1].chunk.content = ListContent(<<TextPart(A), ToolUsePart, TextPart(B)>>)
    /\ out = <<TokenFrame(AB), DoneFrame>>

RECURSIVE FramesAlone(_, _, _)
\* The frames a request yields for a sequence of events when it runs alone.
FramesAlone(es, request, id) ==
    IF es = <<>> THEN <<>>
    ELSE ProcessEvent(Head(es), request, id).msgs \o FramesAlone(Tail(es), request, id)

\* The frames of its events that a task has yielded or is about to yield.
TaskFrames(t) ==
    SelectSeq(t.out, LAMBDA f : ~(f.type = "DONE"
                                  \/ (f.type = "error" /\ f.detail = "Internal server error")))
    \o t.pending

\* C25: however the tasks of two simultaneous stream requests are
\* interleaved, the frames of each are the frames it yields for its own
\* events when it runs alone.
C25_InterleavingChangesNothing ==
    /\ TaskFrames(Running) = FramesAlone(consumed, user_input, run_id)
    /\ peer.pc # "none" =>
          TaskFrames(peer) = FramesAlone(peer.consumed, peer.user_input, peer.run_id)

\* Both tasks are in the middle of an event of their own, each with a frame
\* yielded and a frame still to yield, and their events differ.
C25_Witness ==
    /\ peer.pc = "yield" /\ pc = "yield"
    /\ out # <<>> /\ peer.out # <<>>
    /\ pending # <<>> /\ peer.pending # <<>>
    /\ consumed[Len(consumed)] # peer.consumed[Len(peer.consumed)]

\* The identifiers the request set that an entry of agent_config names: the
\* thread id (the request's or the one drawn for it) always, the model and
\* the user id when the request gives them.
Collisions ==
    {"thread_id"} \cup (IF Given(user_input.model) THEN {"model"} ELSE {})
                  \cup (IF Given(user_input.user_id) THEN {"user_id"} ELSE {})

\* C26: when input handling has succeeded, no entry of agent_config names an
\* identifier the request set, and in the configuration of the run
\* thread_id is the resolved thread id and model and user_id are the
\* request's when it gives them; a request whose agent_config names such an
\* identifier is rejected with 422 before the engine is called.
C26_AgentConfigNeverOverrides ==
    LET c == kwargs.config.configurable
        colliding == Collisions \cap DOMAIN user_input.agent_config
    IN  /\ InputHandled =>
              /\ colliding = {}
              /\ c["thread_id"] = (IF Given(user_input.thread_id)
                                   THEN user_input.thread_id ELSE Uuid(2))
              /\ c["thread_id"] = ThreadOf(calls[1].config)
              /\ Given(user_input.model) => c["model"] = user_input.model
              /\ Given(user_input.user_id) => c["user_id"] = user_input.user_id
        /\ (colliding # {} /\ pc # "start") =>
              /\ calls = <<>>
              /\ result = HTTPException(422, "agent_config contains reserved keys")

\* Input handling succeeded for a request that gave a thread id and a model,
\* no user id, and an agent_config with a user_id of its own: the
\* configuration holds the request's thread id and model next to it.
C26_Witness ==
    /\ InputHandled
    /\ Given(user_input.thread_id) /\ Given(user_input.model) /\ ~Given(user_input.user_id)
    /\ DOMAIN user_input.agent_config = {"user_id"}
    /\ DOMAIN kwargs.config.configurable = {"thread_id", "model", "user_id"}
    /\ kwargs.config.configurable["model"] = user_input.model

\* The message frame of a complete message.
FrameOf(message) == MessageFrame([langchain_to_chat_message(message) EXCEPT !.run_id = run_id])

\* C27, as stated: a supervisor update with an AI message surfaces exactly
\* one message, the last AI message of the delta; a supervisor update with
\* no AI message surfaces every message of the delta, unchanged and in
\* order.
C27_SupervisorLastOrAll ==
    SingleNodeStreamEnded({SupervisorNode}) =>
        LET ai == AIMessagesOf(TheList)
        IN  /\ ai # <<>> => MessageFramesOut = <<FrameOf(ai[Len(ai)])>>
            /\ ai = <<>> => MessageFramesOut = [i \in 1..Len(TheList) |-> FrameOf(TheList[i])]

\* What is left of the stream without its node_update frames, the outer
\* handler's error frame and the sentinel.
SurfacedOut == SelectSeq(LoopFrames, LAMBDA f : f.type # "node_update")

\* C27, amended: a supervisor update with an AI message surfaces exactly one
\* message, the last AI message of the delta; a supervisor update with no AI
\* message is surfaced as the same message list of an ordinary node is: its
\* messages in order, without the echo of the request's input and with each
\* run of tuple fragments assembled.
C27_SupervisorAsOrdinaryNode ==
    SingleNodeStreamEnded({SupervisorNode}) =>
        LET ai == AIMessagesOf(TheList)
            kept == IF ai # <<>> THEN <<ai[Len(ai)]>> ELSE TheList
            ordinary == ProcessEvent(UpdatesEvent(<<Item("chat_model", DictDelta(kept))>>),
                                     [user_input EXCEPT !.stream_node_updates = FALSE],
                                     run_id)
        IN  /\ SurfacedOut = ordinary.msgs
            /\ ordinary.raised => OuterErrors # <<>>
            /\ ai # <<>> => MessageFramesOut = <<FrameOf(ai[Len(ai)])>>

\* A supervisor update with no AI message, the request's own input followed
\* by a tool message, surfaced the tool message alone.
C27_Witness ==
    /\ SingleNodeStreamEnded({SupervisorNode})
    /\ TheList = <<HumanMessage(user_input.message), ToolMessage(A, "search")>>
    /\ MessageFramesOut = <<FrameOf(ToolMessage(A, "search"))>>

====
